---- MODULE Spec2Model ----
(***************************************************************************)
(* BeInformed frontend: the backend readiness monitor (useBackendHealth),  *)
(* the search page that it gates (Search.handleSearch) and the client-side *)
(* article filter of the topic page (TopicDetail.filteredArticles with the *)
(* ArticleFilters panel), the statistics of the topic page (fetchTopic,    *)
(* fetchStatistics, localStats and the TopicStatistics panel with its      *)
(* double-precision percentages) and the sources store (SourceProvider).   *)
(***************************************************************************)
EXTENDS Integers, Sequences, FiniteSets, Bags, TLC

\* ------------------------------------------------------------------ bounds
\* Interval timers that can be active at once (each retryHealthCheck makes one).
MaxIntervals == 2
\* Probe requests (checkHealth fetches) that can be awaiting a response at once.
MaxInFlight == 2
\* How far late probe completions may push retryCount beyond maxRetries.
MaxOvershoot == 1
\* handleSearch invocations that can be awaiting a response at once.
MaxSearches == 1
\* Longest article page loaded into the topic page.
MaxPageLen == 2
\* Articles of the topic that lie on other pages than the loaded one.
MaxElsewhere == 1
\* fetchTopic calls that can be awaiting a response at once.
MaxTopicFetches == 1
\* fetchStatistics calls that can be awaiting a response at once.
MaxStatsFetches == 1
\* Calls of the sources store that can be awaiting a response at once.
MaxStoreCalls == 2
\* Calls of fetchTopic and of the analysis handlers that can be awaiting something at once.
MaxThreads == 2
\* Pages of articles of the largest topic.
MaxPages == 2
\* Longest sources list the store is followed to.
MaxSources == 2

\* ------------------------------------------------------- program constants
\* const maxRetries = 40
maxRetries == 40
\* setInterval(performCheck, 5000): seconds between two probes
probeIntervalSeconds == 5

VARIABLES
    \* --- useBackendHealth (one instance of the hook)
    phase,          \* "created" (first render done, effect not yet run), "mounted", "unmounted"
    isProduction,   \* hostname is neither localhost nor 127.0.0.1
    status,         \* the HealthStatus state
    intervalRef,    \* intervalRef.current: an interval id, or 0 for null
    intervals,      \* ids of the setInterval timers that are still active
    inflight,       \* performCheck calls awaiting their checkHealth() response
    timer,          \* the 65 s fallback setTimeout: "none", "pending", "fired", "cleared"
    \* --- Search page
    searchQuery,    \* the text of the search box, a sequence of characters
    isSearching,
    searchError,    \* "null" or an error text
    searchResult,   \* 0 for null, or the topic id of the stored result
    awaitingTopic,     \* handleSearch calls awaiting topicApi.searchTopic
    awaitingArticles,  \* handleSearch calls awaiting topicApi.getTopicArticles
    \* --- TopicDetail page with its ArticleFilters panel
    articleList,    \* [loaded |-> FALSE] for null, else the loaded page's items and total
    filters,        \* TopicDetail's filters state
    panelFilters,   \* ArticleFilters' own filters state
    \* --- TopicDetail: loading of the page and of its statistics
    loading,        \* TopicDetail's loading state
    error,          \* TopicDetail's error state: Null or Some(text)
    stats,          \* TopicDetail's stats state: Null or Some(aggregate)
    statsLoading,
    fetchingTopic,     \* fetchTopic calls awaiting topicApi.getTopic
    fetchingArticles,  \* fetchTopic calls awaiting topicApi.getTopicArticles
    fetchingStats,     \* fetchStatistics calls awaiting topicApi.getTopicStatistics
    \* --- SourceProvider
    sources,        \* the sources state, a sequence of Source records
    storeLoading,   \* the provider's loading state
    storeError,     \* the provider's error state: Null or Some(text)
    storeCalls,     \* the calls of the provider's operations awaiting sourceApi
    storeResolved,  \* what the call that settled last resolved to
    \* --- the backend's sources and the requests of SourceProvider on their way
    backend,        \* the sources the backend holds, in creation order
    nextId,         \* the id the backend gives to the next created source
    wire,           \* the bag of requests sent and not yet answered and of answers not yet received
    \* --- the Search page's own instance of useBackendHealth
    pagePhase,      \* "absent" (another page is shown), "created", "mounted"
    pageStatus,     \* the HealthStatus state of that instance
    pageTimer,      \* its fallback setTimeout: "none", "pending", "fired", "cleared"
    \* --- TopicDetail: the route, the pagination and the requests on their way
    navPhase,       \* "created" (first render done, effects not yet run) or "mounted"
    routeTopicId,   \* the topicId parameter of the route
    currentPage,    \* TopicDetail's currentPage state
    topic,          \* TopicDetail's topic state: Null or Some(id of the topic)
    isAnalyzing,    \* TopicDetail's isAnalyzing state
    threads,        \* the bag of calls of fetchTopic and of the analysis handlers that await something
    refreshingStats, \* the getTopicStatistics calls of refreshData awaiting their response
    \* --- ArticleDetail and the article it shows
    articleStage,   \* "absent" (page not open), "loading", "idle", or what handleAnalyze awaits: "post", "getArticle"
    articleShown,   \* ArticleDetail's article state: Null or Some(article)
    articleError,   \* ArticleDetail's error state
    analyzing,      \* ArticleDetail's analyzing state
    serverAnalyzed  \* whether the backend has analysed the article that awaited its analysis

monitorVars == <<phase, isProduction, status, intervalRef, intervals, inflight, timer>>
searchVars == <<searchQuery, isSearching, searchError, searchResult, awaitingTopic, awaitingArticles>>
topicVars == <<articleList, filters, panelFilters>>
statsVars == <<loading, error, stats, statsLoading, fetchingTopic, fetchingArticles, fetchingStats>>
storeVars == <<sources, storeLoading, storeError, storeCalls, storeResolved>>
backendVars == <<backend, nextId, wire>>
pageVars == <<pagePhase, pageStatus, pageTimer>>
navVars == <<navPhase, routeTopicId, currentPage, topic, isAnalyzing, threads, refreshingStats>>
articleVars == <<articleStage, articleShown, articleError, analyzing, serverAnalyzed>>
vars == <<monitorVars, searchVars, topicVars, statsVars, storeVars, backendVars, pageVars, navVars, articleVars>>

\* ------------------------------------------------------------ the monitor
MsgChecking == <<"Checking backend status...">>
MsgReadyProbe == <<"Backend is ready!">>
MsgUnavailable == <<"Backend appears to be unavailable. Please try again later.">>
MsgLocalReady == <<"Ready">>
MsgStartingFixed == <<"Backend is starting up... Estimated wait: 1 min 30 seconds maximum as I am hosting backend on free render plan which spins down with inactivity!">>
MsgFallbackReady == <<"Backend should be ready now">>
MsgStartingUp(minutes) == <<"Backend is starting up... Estimated wait: ", minutes, " minute(s)">>

\* Math.ceil(a / b) for a >= 0, b > 0
Ceil(a, b) == (a + b - 1) \div b

\* useState<HealthStatus>({...}) initial value
InitialStatus ==
    [isHealthy |-> FALSE, isChecking |-> TRUE, isSpinningUp |-> FALSE,
     retryCount |-> 0, message |-> MsgChecking]

LocalReadyStatus_StillChecking ==
    [isHealthy |-> FALSE, isChecking |-> TRUE, isSpinningUp |-> FALSE,
     retryCount |-> 0, message |-> MsgLocalReady]

\* the status object set by the effect on localhost
LocalReadyStatus ==
    [isHealthy |-> TRUE, isChecking |-> FALSE, isSpinningUp |-> FALSE,
     retryCount |-> 0, message |-> MsgLocalReady]

ProductionStartStatus_NotChecking ==
    [isHealthy |-> FALSE, isChecking |-> FALSE, isSpinningUp |-> TRUE,
     retryCount |-> 0, message |-> MsgStartingFixed]

\* the status object set by the effect in production
ProductionStartStatus ==
    [isHealthy |-> FALSE, isChecking |-> TRUE, isSpinningUp |-> TRUE,
     retryCount |-> 0, message |-> MsgStartingFixed]

FallbackStatus_NotHealthy ==
    [isHealthy |-> FALSE, isChecking |-> FALSE, isSpinningUp |-> FALSE,
     retryCount |-> 0, message |-> MsgFallbackReady]

\* the status object set by the fallback setTimeout callback
FallbackStatus ==
    [isHealthy |-> TRUE, isChecking |-> FALSE, isSpinningUp |-> FALSE,
     retryCount |-> 0, message |-> MsgFallbackReady]

RetryStatus_KeepCount ==
    [isHealthy |-> FALSE, isChecking |-> TRUE, isSpinningUp |-> FALSE,
     retryCount |-> status.retryCount, message |-> MsgChecking]

\* retryHealthCheck's setStatus({...}) followed by startHealthCheck's
\* setStatus(prev => ({...prev, isChecking: true}))
RetryStatus ==
    [[isHealthy |-> FALSE, isChecking |-> TRUE, isSpinningUp |-> FALSE,
      retryCount |-> 0, message |-> MsgChecking] EXCEPT !.isChecking = TRUE]

\* The outcomes of one fetch in checkHealth: an HTTP success status, a
\* non-success status, a rejected fetch (network error), an abort after 10 s.
ProbeOutcomes == {"ok", "http_error", "network_error", "timeout"}

checkHealth_AnyResponse(outcome) == outcome \in {"ok", "http_error"}

\* checkHealth(): response.ok, or false from the catch block
checkHealth(outcome) == outcome = "ok"

\* the updater passed to setStatus in performCheck: the next status
performCheckStatus(prev, isHealthy) ==
    LET newRetryCount == prev.retryCount + 1
        isSpinningUp == newRetryCount > 2 /\ newRetryCount < maxRetries
        estimatedMinutes == Ceil((maxRetries - newRetryCount) * probeIntervalSeconds, 60)
        message == IF isSpinningUp THEN MsgStartingUp(estimatedMinutes)
                   ELSE IF newRetryCount >= maxRetries THEN MsgUnavailable
                   ELSE MsgChecking
    IN  IF isHealthy
        THEN [isHealthy |-> TRUE, isChecking |-> FALSE, isSpinningUp |-> FALSE,
              retryCount |-> newRetryCount, message |-> MsgReadyProbe]
        ELSE [isHealthy |-> FALSE, isChecking |-> newRetryCount < maxRetries,
              isSpinningUp |-> isSpinningUp, retryCount |-> newRetryCount,
              message |-> message]

\* the updater passed to setStatus in performCheck: does it clear the interval
\* that intervalRef.current names?
performCheckClears(prev, isHealthy) ==
    \/ isHealthy
    \/ LET newRetryCount == prev.retryCount + 1
       IN  ~(newRetryCount > 2 /\ newRetryCount < maxRetries) /\ newRetryCount >= maxRetries

\* setInterval returns an id that no active timer has
FreshIntervalId == CHOOSE id \in 1..MaxIntervals : id \notin intervals

\* useEffect(() => {...}, []) after the first render
MountEffect ==
    /\ phase = "created"
    /\ phase' = "mounted"
    /\ IF ~isProduction
       THEN /\ status' = LocalReadyStatus
            /\ timer' = "none"
       ELSE /\ status' = ProductionStartStatus
            /\ timer' = "pending"
    /\ UNCHANGED <<isProduction, intervalRef, intervals, inflight>>
    /\ UNCHANGED <<searchVars, topicVars, statsVars, storeVars, backendVars, pageVars, navVars, articleVars>>

\* the fallback setTimeout callback, 65 s after the effect ran
FallbackTimerFires ==
    /\ timer = "pending"
    /\ timer' = "fired"
    /\ status' = FallbackStatus
    /\ UNCHANGED <<phase, isProduction, intervalRef, intervals, inflight>>
    /\ UNCHANGED <<searchVars, topicVars, statsVars, storeVars, backendVars, pageVars, navVars, articleVars>>

\* retryHealthCheck(): reset the status, then startHealthCheck(): one probe at
\* once and a new interval whose id overwrites intervalRef.current
RetryHealthCheck ==
    /\ phase = "mounted"
    /\ Cardinality(intervals) < MaxIntervals
    /\ inflight < MaxInFlight
    /\ status' = RetryStatus
    /\ inflight' = inflight + 1
    /\ intervalRef' = FreshIntervalId
    /\ intervals' = intervals \cup {FreshIntervalId}
    /\ UNCHANGED <<phase, isProduction, timer>>
    /\ UNCHANGED <<searchVars, topicVars, statsVars, storeVars, backendVars, pageVars, navVars, articleVars>>

\* an active interval fires: performCheck() issues the next probe
IntervalTick ==
    /\ intervals # {}
    /\ inflight < MaxInFlight
    /\ inflight' = inflight + 1
    /\ UNCHANGED <<phase, isProduction, status, intervalRef, intervals, timer>>
    /\ UNCHANGED <<searchVars, topicVars, statsVars, storeVars, backendVars, pageVars, navVars, articleVars>>

\* a probe's checkHealth() resolves while the component is mounted: performCheck
\* runs its setStatus updater
ProbeCompletes(outcome) ==
    /\ phase = "mounted"
    /\ inflight > 0
    /\ status.retryCount < maxRetries + MaxOvershoot
    /\ inflight' = inflight - 1
    /\ status' = performCheckStatus(status, checkHealth(outcome))
    /\ IF performCheckClears(status, checkHealth(outcome)) /\ intervalRef # 0
       THEN /\ intervals' = intervals \ {intervalRef}
            /\ intervalRef' = 0
       ELSE UNCHANGED <<intervalRef, intervals>>
    /\ UNCHANGED <<phase, isProduction, timer>>
    /\ UNCHANGED <<searchVars, topicVars, statsVars, storeVars, backendVars, pageVars, navVars, articleVars>>

\* a probe's checkHealth() resolves after the component unmounted: React drops
\* the state update; whether it still evaluates the updater (and with it the
\* clearInterval inside) depends on React's eager-state path, so both happen
ProbeCompletesUnmounted(outcome, updaterRuns) ==
    /\ phase = "unmounted"
    /\ inflight > 0
    /\ inflight' = inflight - 1
    /\ IF updaterRuns /\ performCheckClears(status, checkHealth(outcome)) /\ intervalRef # 0
       THEN /\ intervals' = intervals \ {intervalRef}
            /\ intervalRef' = 0
       ELSE UNCHANGED <<intervalRef, intervals>>
    /\ UNCHANGED <<phase, isProduction, status, timer>>
    /\ UNCHANGED <<searchVars, topicVars, statsVars, storeVars, backendVars, pageVars, navVars, articleVars>>

\* the component unmounts: the effect's cleanup, () => clearTimeout(timer),
\* runs (the localhost branch returned no cleanup)
Unmount ==
    /\ phase = "mounted"
    /\ phase' = "unmounted"
    /\ timer' = IF timer = "pending" THEN "cleared" ELSE timer
    /\ UNCHANGED <<isProduction, status, intervalRef, intervals, inflight>>
    /\ UNCHANGED <<searchVars, topicVars, statsVars, storeVars, backendVars, pageVars, navVars, articleVars>>

\* BackendStatusBanner: the banner is rendered unless isHealthy, and its Retry
\* button, whose onClick calls retryHealthCheck(), unless isChecking
RetryButtonRendered == ~status.isHealthy /\ ~status.isChecking

MonitorInit ==
    /\ phase = "created"
    /\ isProduction \in BOOLEAN
    /\ status = InitialStatus
    /\ intervalRef = 0
    /\ intervals = {}
    /\ inflight = 0
    /\ timer = "none"

MonitorNext ==
    \/ MountEffect
    \/ FallbackTimerFires
    \/ RetryHealthCheck
    \/ IntervalTick
    \/ \E outcome \in ProbeOutcomes : ProbeCompletes(outcome)
    \/ \E outcome \in ProbeOutcomes, updaterRuns \in BOOLEAN :
           ProbeCompletesUnmounted(outcome, updaterRuns)
    \/ Unmount

\* ------------------------- the Search page's own instance of the monitor
\* Layout renders the banner, whose useBackendHealth() is the instance above,
\* and, through the Outlet, the page of the route; the Search page calls
\* useBackendHealth() itself and so has a status, a ref and a timer of its
\* own. It reads isHealthy only: it never calls retryHealthCheck, so its
\* instance never issues a probe.

\* navigation to /search: a new instance of the page is rendered for the
\* first time, with the initial values of its useState calls. The requests
\* of an earlier instance are followed no further: what is left of them sets
\* the state of an unmounted component.
NavigateToSearch ==
    /\ phase # "unmounted"
    /\ pagePhase = "absent"
    /\ pagePhase' = "created"
    /\ pageStatus' = InitialStatus
    /\ pageTimer' = "none"
    /\ searchQuery' = <<>>
    /\ isSearching' = FALSE
    /\ searchError' = "null"
    /\ searchResult' = 0
    /\ awaitingTopic' = 0
    /\ awaitingArticles' = 0
    /\ UNCHANGED <<monitorVars, topicVars, statsVars, storeVars, backendVars, navVars, articleVars>>

\* useEffect(() => {...}, []) of the page's instance
PageMountEffect ==
    /\ pagePhase = "created"
    /\ pagePhase' = "mounted"
    /\ IF ~isProduction
       THEN /\ pageStatus' = LocalReadyStatus
            /\ pageTimer' = "none"
       ELSE /\ pageStatus' = ProductionStartStatus
            /\ pageTimer' = "pending"
    /\ UNCHANGED <<monitorVars, searchVars, topicVars, statsVars, storeVars, backendVars, navVars, articleVars>>

\* the fallback setTimeout callback of the page's instance
PageFallbackTimerFires ==
    /\ pageTimer = "pending"
    /\ pageTimer' = "fired"
    /\ pageStatus' = FallbackStatus
    /\ UNCHANGED pagePhase
    /\ UNCHANGED <<monitorVars, searchVars, topicVars, statsVars, storeVars, backendVars, navVars, articleVars>>

\* navigation away from /search: the page unmounts, the effect's cleanup
\* clears the timer, the instance and its state are gone
NavigateAway ==
    /\ pagePhase = "mounted"
    /\ pagePhase' = "absent"
    /\ pageTimer' = IF pageTimer = "pending" THEN "cleared" ELSE pageTimer
    /\ UNCHANGED pageStatus
    /\ UNCHANGED <<monitorVars, searchVars, topicVars, statsVars, storeVars, backendVars, navVars, articleVars>>

PageNext ==
    \/ NavigateToSearch
    \/ PageMountEffect
    \/ PageFallbackTimerFires
    \/ NavigateAway

\* ------------------------------------------------------------ Search page
\* A character of a text is a one-character string, or, for a character
\* that a string of this language cannot spell, the name of its code point.
\* Texts typed or pasted into the search box: empty, blanks only, a padded
\* word, a carriage return, a word after a no-break space.
Queries == {<<>>, <<" ">>, <<" ", "a", " ">>, <<"\r">>, <<"U+00A0", "a">>}
\* Topic ids that POST /topics/search answers with.
TopicIds == {1, 2}

MsgNotReady == "Backend is still starting up. Please wait a moment and try again."
MsgSearchFailed == "An error occurred while searching. Please try again."

\* the characters that trim() removes: WhiteSpace and LineTerminator of
\* ECMAScript
IsSpace(c) ==
    c \in {"\t", "\n", "U+000B", "\f", "\r", " ", "U+00A0", "U+1680",
           "U+2000", "U+2001", "U+2002", "U+2003", "U+2004", "U+2005", "U+2006",
           "U+2007", "U+2008", "U+2009", "U+200A", "U+2028", "U+2029", "U+202F",
           "U+205F", "U+3000", "U+FEFF"}

RECURSIVE TrimStart(_)
TrimStart(s) == IF s # <<>> /\ IsSpace(Head(s)) THEN TrimStart(Tail(s)) ELSE s

RECURSIVE TrimEnd(_)
TrimEnd(s) ==
    IF s # <<>> /\ IsSpace(s[Len(s)]) THEN TrimEnd(SubSeq(s, 1, Len(s) - 1)) ELSE s

\* variant: the query is tested as it was typed
Trim_Untrimmed(s) == s

\* String.prototype.trim()
Trim(s) == TrimEnd(TrimStart(s))

\* onChange={(e) => setSearchQuery(e.target.value)} of the search box, which
\* is disabled while the page's monitor is not healthy
SetSearchQuery(q) ==
    /\ pagePhase = "mounted"
    /\ pageStatus.isHealthy
    /\ q # searchQuery
    /\ searchQuery' = q
    /\ UNCHANGED <<isSearching, searchError, searchResult, awaitingTopic, awaitingArticles>>
    /\ UNCHANGED <<monitorVars, topicVars, statsVars, storeVars, backendVars, pageVars, navVars, articleVars>>

\* if (!isHealthy), with isHealthy from the page's useBackendHealth()
BackendNotReady == ~pageStatus.isHealthy

\* handleSearch up to its first await
HandleSearch ==
    /\ pagePhase = "mounted"
    /\ IF Trim(searchQuery) = <<>>
       THEN UNCHANGED <<isSearching, searchError, awaitingTopic>>
       ELSE IF BackendNotReady
       THEN /\ searchError' = MsgNotReady
            /\ UNCHANGED <<isSearching, awaitingTopic>>
       ELSE /\ awaitingTopic + awaitingArticles < MaxSearches
            /\ isSearching' = TRUE
            /\ searchError' = "null"
            /\ awaitingTopic' = awaitingTopic + 1
    /\ UNCHANGED <<searchQuery, searchResult, awaitingArticles>>
    /\ UNCHANGED <<monitorVars, topicVars, statsVars, storeVars, backendVars, pageVars, navVars, articleVars>>

\* topicApi.searchTopic settles: on success handleSearch goes on to
\* getTopicArticles(result.topic.id), on failure to catch and finally.
\* State updates of an unmounted component are dropped.
SearchTopicResponds(ok) ==
    /\ awaitingTopic > 0
    /\ awaitingTopic' = awaitingTopic - 1
    /\ IF ok
       THEN /\ awaitingArticles' = awaitingArticles + 1
            /\ UNCHANGED <<isSearching, searchError>>
       ELSE /\ awaitingArticles' = awaitingArticles
            /\ IF pagePhase = "mounted"
               THEN searchError' = MsgSearchFailed /\ isSearching' = FALSE
               ELSE UNCHANGED <<isSearching, searchError>>
    /\ UNCHANGED <<searchQuery, searchResult>>
    /\ UNCHANGED <<monitorVars, topicVars, statsVars, storeVars, backendVars, pageVars, navVars, articleVars>>

\* topicApi.getTopicArticles settles for the topic that searchTopic returned:
\* setSearchResult, or catch; then finally
TopicArticlesRespond(ok, topicId) ==
    /\ awaitingArticles > 0
    /\ awaitingArticles' = awaitingArticles - 1
    /\ IF pagePhase = "mounted"
       THEN /\ isSearching' = FALSE
            /\ IF ok
               THEN searchResult' = topicId /\ searchError' = searchError
               ELSE searchError' = MsgSearchFailed /\ searchResult' = searchResult
       ELSE UNCHANGED <<isSearching, searchError, searchResult>>
    /\ UNCHANGED <<searchQuery, awaitingTopic>>
    /\ UNCHANGED <<monitorVars, topicVars, statsVars, storeVars, backendVars, pageVars, navVars, articleVars>>

SearchInit ==
    /\ searchQuery = <<>>
    /\ isSearching = FALSE
    /\ searchError = "null"
    /\ searchResult = 0
    /\ awaitingTopic = 0
    /\ awaitingArticles = 0

SearchNext ==
    \/ \E q \in Queries : SetSearchQuery(q)
    \/ HandleSearch
    \/ \E ok \in BOOLEAN : SearchTopicResponds(ok)
    \/ \E ok \in BOOLEAN, topicId \in TopicIds : TopicArticlesRespond(ok, topicId)

\* ------------------------------------------- TopicDetail / ArticleFilters
\* A nullable field is <<>> for null and <<v>> for the value v.
Null == <<>>
Some(v) == <<v>>

\* JavaScript truthiness of a nullable label: neither null nor ''
Truthy(field) == field # Null /\ field[1] # ""

TruthyName_NonNull(field) == field # Null

\* truthiness of a nullable source name (a sequence of characters)
TruthyName(field) == field # Null /\ field[1] # <<>>

\* truthiness of a nullable timestamp
TruthyDate(field) == field # Null

\* new Date(): the day on which the page is rendered (time counted in days)
NowDay == 100

BBC == <<"B", "B", "C">>
CNN == <<"C", "N", "N">>

\* Articles the backend can return: analysed ones with every label, one with
\* no analysis, no source and no date, one without sentiment only, and dates
\* on the edge of the 7-day window, older, much older and in the future.
ArticlePool ==
    { [id |-> 1, source_name |-> Some(BBC), published_at |-> Some(NowDay - 7),
       sentiment_label |-> Some("positive"), political_bias_label |-> Some("left-leaning"),
       last_analyzed_at |-> Some(NowDay)],
      [id |-> 2, source_name |-> Some(CNN), published_at |-> Some(NowDay - 8),
       sentiment_label |-> Some("negative"), political_bias_label |-> Some("neutral"),
       last_analyzed_at |-> Some(NowDay)],
      [id |-> 3, source_name |-> Null, published_at |-> Null,
       sentiment_label |-> Null, political_bias_label |-> Null,
       last_analyzed_at |-> Null],
      [id |-> 4, source_name |-> Some(BBC), published_at |-> Some(NowDay + 1),
       sentiment_label |-> Some("neutral"), political_bias_label |-> Some("centrist"),
       last_analyzed_at |-> Some(NowDay)],
      [id |-> 5, source_name |-> Some(CNN), published_at |-> Some(NowDay - 91),
       sentiment_label |-> Null, political_bias_label |-> Some("right-leaning"),
       last_analyzed_at |-> Some(NowDay)] }

\* Pages of articles: no article twice, at most MaxPageLen of them.
RECURSIVE PagesOfLen(_)
PagesOfLen(n) ==
    IF n = 0 THEN {<<>>}
    ELSE UNION {{Append(page, a) : a \in {b \in ArticlePool :
                    \A i \in 1..Len(page) : page[i].id # b.id}} : page \in PagesOfLen(n - 1)}

Pages == UNION {PagesOfLen(n) : n \in 0..MaxPageLen}

\* the options of the ArticleFilters panel
SentimentOptions == {"positive", "neutral", "negative"}
BiasOptions == {"left-leaning", "centrist", "right-leaning"}
DateRangeOptions == {"all", "7", "30", "90"}

\* defaultFilters
defaultFilters ==
    [sentiment |-> <<>>, bias |-> <<>>, sources |-> <<>>, dateRange |-> "all"]

\* Array.prototype.includes
Includes(arr, v) == \E i \in 1..Len(arr) : arr[i] = v

\* arr.filter(item => item !== v)
RECURSIVE Without(_, _)
Without(arr, v) ==
    IF arr = <<>> THEN <<>>
    ELSE IF Head(arr) = v THEN Without(Tail(arr), v)
    ELSE <<Head(arr)>> \o Without(Tail(arr), v)

\* parseInt of a date-range option
parseInt(str) ==
    CASE str = "7" -> 7
      [] str = "30" -> 30
      [] str = "90" -> 90

\* UTF-16 code units of the characters used in source names
CharCode(c) ==
    CASE c = "B" -> 66
      [] c = "C" -> 67
      [] c = "N" -> 78

\* the default comparison of Array.prototype.sort: code unit by code unit
RECURSIVE StrLess(_, _)
StrLess(a, b) ==
    IF b = <<>> THEN FALSE
    ELSE IF a = <<>> THEN TRUE
    ELSE IF CharCode(Head(a)) # CharCode(Head(b)) THEN CharCode(Head(a)) < CharCode(Head(b))
    ELSE StrLess(Tail(a), Tail(b))

\* Array.from(set).sort() of distinct strings
RECURSIVE SortStrings(_)
SortStrings(set) ==
    IF set = {} THEN <<>>
    ELSE LET least == CHOOSE x \in set : \A y \in set \ {x} : StrLess(x, y)
         IN  <<least>> \o SortStrings(set \ {least})

\* availableSources: the distinct truthy source names of the page, sorted
availableSources ==
    IF ~articleList.loaded THEN <<>>
    ELSE SortStrings({articleList.items[i].source_name[1] :
                        i \in {j \in 1..Len(articleList.items) :
                                 TruthyName(articleList.items[j].source_name)}})

\* the sentiment test of the filter callback: TRUE when the article is kept
PassesSentiment(article, f) ==
    ~(/\ Len(f.sentiment) > 0 /\ Truthy(article.sentiment_label)
      /\ ~Includes(f.sentiment, article.sentiment_label[1]))

\* the bias test of the filter callback
PassesBias(article, f) ==
    ~(/\ Len(f.bias) > 0 /\ Truthy(article.political_bias_label)
      /\ ~Includes(f.bias, article.political_bias_label[1]))

\* the source test of the filter callback
PassesSource(article, f) ==
    ~(/\ Len(f.sources) > 0 /\ TruthyName(article.source_name)
      /\ ~Includes(f.sources, article.source_name[1]))

PassesDate_NullExcluded(article, f) ==
    /\ TruthyDate(article.published_at)
    /\ f.dateRange # "all" => article.published_at[1] >= NowDay - parseInt(f.dateRange)

\* the date test of the filter callback
PassesDate(article, f) ==
    ~(/\ f.dateRange # "all" /\ TruthyDate(article.published_at)
      /\ LET publishDate == article.published_at[1]
             daysAgo == parseInt(f.dateRange)
             cutoffDate == NowDay - daysAgo
         IN  publishDate < cutoffDate)

\* the callback of articleList.items.filter
KeepsArticle(article, f) ==
    /\ PassesSentiment(article, f)
    /\ PassesBias(article, f)
    /\ PassesSource(article, f)
    /\ PassesDate(article, f)

\* filteredArticles
filteredArticles ==
    IF ~articleList.loaded THEN <<>>
    ELSE LET Keep(article) == KeepsArticle(article, filters)
         IN  SelectSeq(articleList.items, Keep)

\* the page is past its two early returns: the spinner while loading, the
\* error view while error, no topic or no article list
PageRendered ==
    /\ navPhase = "mounted"
    /\ ~loading /\ error = Null /\ topic # Null /\ articleList.loaded

\* handleFilterChange of the panel for sentiment, bias or sources: toggle
\* value in the panel's copy, then hand the new filters to TopicDetail; the
\* panel is part of the rendered page
ToggleFilter(category, value) ==
    /\ PageRendered
    /\ LET current == panelFilters[category]
           toggled == IF Includes(current, value) THEN Without(current, value)
                      ELSE Append(current, value)
           newFilters == [panelFilters EXCEPT ![category] = toggled]
       IN  /\ panelFilters' = newFilters
           /\ filters' = newFilters
    /\ UNCHANGED articleList
    /\ UNCHANGED <<monitorVars, searchVars, statsVars, storeVars, backendVars, pageVars, navVars, articleVars>>

\* handleFilterChange('dateRange', value)
SetDateRange(value) ==
    /\ PageRendered
    /\ value # panelFilters.dateRange
    /\ LET newFilters == [panelFilters EXCEPT !.dateRange = value]
       IN  /\ panelFilters' = newFilters
           /\ filters' = newFilters
    /\ UNCHANGED articleList
    /\ UNCHANGED <<monitorVars, searchVars, statsVars, storeVars, backendVars, pageVars, navVars, articleVars>>

\* clearFilters
ClearFilters ==
    /\ PageRendered
    /\ panelFilters' = defaultFilters
    /\ filters' = defaultFilters
    /\ UNCHANGED articleList
    /\ UNCHANGED <<monitorVars, searchVars, statsVars, storeVars, backendVars, pageVars, navVars, articleVars>>

\* the state of TopicDetail's loading, error and stats after the first render
StatsInit ==
    /\ loading = TRUE
    /\ error = Null
    /\ stats = Null
    /\ statsLoading = TRUE
    /\ fetchingTopic = 0
    /\ fetchingArticles = 0
    /\ fetchingStats = 0

\* the ids and titles of the sources the backend answers with
SourceIds == {1, 2}
SourceTitles == {"a", "b"}
Sources == [id : SourceIds, title : SourceTitles]

\* the calls of the provider's operations
StoreOps ==
    {[op |-> "fetchSources", id |-> 0], [op |-> "createSource", id |-> 0]}
        \cup [op : {"updateSource", "deleteSource"}, id : SourceIds]

\* what a call of an operation resolved to
Resolved(kind, value) == [kind |-> kind, value |-> value]

\* the state of SourceProvider after the first render
StoreInit ==
    /\ sources = <<>>
    /\ storeLoading = FALSE
    /\ storeError = Null
    /\ storeCalls = [call \in StoreOps |-> 0]
    /\ storeResolved = Resolved("none", Null)

\* the backend before any request of the provider: it holds the sources
\* created earlier, with the ids 1, 2, ... in creation order
BackendInit ==
    /\ backend \in {<<>>, <<[id |-> 1, title |-> "a"]>>}
    /\ nextId = Len(backend) + 1
    /\ wire = EmptyBag

\* the Search page is not shown
PageInit ==
    /\ pagePhase = "absent"
    /\ pageStatus = InitialStatus
    /\ pageTimer = "none"

\* TopicDetail after the first render
ArticleInit ==
    /\ articleStage = "absent"
    /\ articleShown = Null
    /\ articleError = Null
    /\ analyzing = FALSE
    /\ serverAnalyzed = FALSE

NavInit ==
    /\ navPhase = "created"
    /\ routeTopicId = 1
    /\ currentPage = 1
    /\ topic = Null
    /\ isAnalyzing = FALSE
    /\ threads = EmptyBag
    /\ refreshingStats = 0

TopicInit ==
    /\ articleList = [loaded |-> FALSE, items |-> <<>>, total |-> 0]
    /\ filters = defaultFilters
    /\ panelFilters = defaultFilters

\* ------------------------------------- the topic page and its statistics
MsgLoadFailed == <<"Failed to load topic data. Please try again.">>

\* The articles of the statistics pages, in the order in which the backend
\* lists them: one that carries labels without an analysis timestamp, one
\* whose source name is the empty string, and those of ArticlePool.
StatsArticles ==
    <<[id |-> 7, source_name |-> Some(BBC), published_at |-> Some(NowDay),
       sentiment_label |-> Some("neutral"), political_bias_label |-> Some("neutral"),
       last_analyzed_at |-> Null],
      [id |-> 6, source_name |-> Some(<<>>), published_at |-> Some(NowDay),
       sentiment_label |-> Some("positive"), political_bias_label |-> Some("centrist"),
       last_analyzed_at |-> Some(NowDay)]>>
    \o [i \in 1..5 |-> CHOOSE article \in ArticlePool : article.id = 6 - i]

\* the subsequences of at most n articles
RECURSIVE SubsequencesOf(_, _)
SubsequencesOf(seq, n) ==
    IF seq = <<>> \/ n = 0 THEN {<<>>}
    ELSE SubsequencesOf(Tail(seq), n)
         \cup {<<Head(seq)>> \o page : page \in SubsequencesOf(Tail(seq), n - 1)}

\* The ArticleList envelopes the backend can answer with: a page of the
\* topic's articles and the topic's total, which also counts the articles
\* of the other pages.
ArticleLists ==
    {[loaded |-> TRUE, items |-> page, total |-> Len(page) + elsewhere] :
        page \in SubsequencesOf(StatsArticles, MaxPageLen),
        elsewhere \in 0..MaxElsewhere}


\* the aggregate getTopicStatistics returns from its catch block
ZeroedStats ==
    [totalArticles |-> 0, analyzedArticles |-> 0, averageSentiment |-> 0,
     sentimentDistribution |-> [positive |-> 0, neutral |-> 0, negative |-> 0],
     biasDistribution |-> [leftLeaning |-> 0, centrist |-> 0, rightLeaning |-> 0],
     sourcesCount |-> 0, sensationalismLevel |-> 0, timeRange |-> "all time"]

CentristBucket_WithoutNeutral(article) ==
    article.political_bias_label = Some("centrist")

\* the test of the centrist count: label 'centrist' or 'neutral'
CentristBucket(article) ==
    \/ article.political_bias_label = Some("centrist")
    \/ article.political_bias_label = Some("neutral")

\* localStats: the aggregate TopicDetail computes from the article list
localStats ==
    IF ~articleList.loaded THEN Null
    ELSE LET items == articleList.items
             Analyzed(a) == TruthyDate(a.last_analyzed_at)
             Positive(a) == a.sentiment_label = Some("positive")
             Neutral(a) == a.sentiment_label = Some("neutral")
             Negative(a) == a.sentiment_label = Some("negative")
             Left(a) == a.political_bias_label = Some("left-leaning")
             Right(a) == a.political_bias_label = Some("right-leaning")
         IN  Some([totalArticles |-> articleList.total,
                   analyzedArticles |-> Len(SelectSeq(items, Analyzed)),
                   averageSentiment |-> 0,
                   sentimentDistribution |->
                       [positive |-> Len(SelectSeq(items, Positive)),
                        neutral |-> Len(SelectSeq(items, Neutral)),
                        negative |-> Len(SelectSeq(items, Negative))],
                   biasDistribution |->
                       [leftLeaning |-> Len(SelectSeq(items, Left)),
                        centrist |-> Len(SelectSeq(items, CentristBucket)),
                        rightLeaning |-> Len(SelectSeq(items, Right))],
                   sourcesCount |->
                       Cardinality({items[i].source_name[1] :
                           i \in {j \in 1..Len(items) : TruthyName(items[j].source_name)}}),
                   sensationalismLevel |-> 0,
                   timeRange |-> "current page"])

\* getBiasStats: the political part of the summary of the analysed articles
getBiasStats ==
    IF ~articleList.loaded \/ Len(articleList.items) = 0 THEN Null
    ELSE LET Analyzed(a) == TruthyDate(a.last_analyzed_at)
             analyzedArticles == SelectSeq(articleList.items, Analyzed)
             Left(a) == a.political_bias_label = Some("left-leaning")
             Right(a) == a.political_bias_label = Some("right-leaning")
         IN  IF Len(analyzedArticles) = 0 THEN Null
             ELSE Some([analyzed |-> Len(analyzedArticles),
                        political |->
                            [leftLeaning |-> Len(SelectSeq(analyzedArticles, Left)),
                             rightLeaning |-> Len(SelectSeq(analyzedArticles, Right)),
                             centrist |-> Len(SelectSeq(analyzedArticles, CentristBucket))]])

\* displayStats: the server's aggregate if it counts any article, else localStats
displayStats ==
    IF stats # Null /\ stats[1].totalArticles > 0 THEN stats ELSE localStats

\* The responses of GET /statistics/topics/{id}: a failure, a success without
\* a payload, or a success with an aggregate.
StatsAggregates ==
    { [ZeroedStats EXCEPT !.timeRange = "30 days"],
      [ZeroedStats EXCEPT !.totalArticles = 4, !.analyzedArticles = 3,
          !.sentimentDistribution = [positive |-> 2, neutral |-> 0, negative |-> 1],
          !.biasDistribution = [leftLeaning |-> 1, centrist |-> 2, rightLeaning |-> 0],
          !.sourcesCount = 2, !.timeRange = "30 days"],
      [ZeroedStats EXCEPT !.totalArticles = 15, !.analyzedArticles = 15,
          !.sentimentDistribution = [positive |-> 5, neutral |-> 5, negative |-> 5],
          !.biasDistribution = [leftLeaning |-> 8, centrist |-> 2, rightLeaning |-> 5],
          !.sourcesCount = 2, !.timeRange = "30 days"] }

StatsOutcomes ==
    {[ok |-> FALSE, data |-> Null], [ok |-> TRUE, data |-> Null]}
        \cup {[ok |-> TRUE, data |-> Some(aggregate)] : aggregate \in StatsAggregates}

getTopicStatistics_Rethrows(outcome) ==
    IF outcome.ok THEN [threw |-> FALSE, value |-> outcome.data]
    ELSE [threw |-> TRUE, value |-> Null]

\* topicApi.getTopicStatistics: the response's data, or the zeroed aggregate
\* when the request fails
getTopicStatistics(outcome) ==
    IF outcome.ok THEN [threw |-> FALSE, value |-> outcome.data]
    ELSE [threw |-> FALSE, value |-> Some(ZeroedStats)]

\* fetchTopic, up to its first await (run by the effect on topicId and
\* currentPage and by the handlers that refresh the page)
FetchTopic ==
    /\ fetchingTopic + fetchingArticles < MaxTopicFetches
    /\ loading' = TRUE
    /\ error' = Null
    /\ fetchingTopic' = fetchingTopic + 1
    /\ UNCHANGED <<stats, statsLoading, fetchingArticles, fetchingStats>>
    /\ UNCHANGED <<monitorVars, searchVars, topicVars, storeVars, backendVars, pageVars, navVars, articleVars>>

\* fetchTopic resumes after topicApi.getTopic: setTopic and the request for
\* the articles, or catch and finally
GetTopicResponds(ok) ==
    /\ fetchingTopic > 0
    /\ fetchingTopic' = fetchingTopic - 1
    /\ IF ok
       THEN /\ topic' = Some(routeTopicId)
            /\ fetchingArticles' = fetchingArticles + 1
            /\ UNCHANGED <<loading, error>>
       ELSE /\ error' = Some(MsgLoadFailed)
            /\ loading' = FALSE
            /\ UNCHANGED <<topic, fetchingArticles>>
    /\ UNCHANGED <<stats, statsLoading, fetchingStats>>
    /\ UNCHANGED <<navPhase, routeTopicId, currentPage, isAnalyzing, threads, refreshingStats>>
    /\ UNCHANGED <<monitorVars, searchVars, topicVars, storeVars, backendVars, pageVars, articleVars>>

\* fetchTopic resumes after topicApi.getTopicArticles
GetTopicArticlesResponds(ok, articles) ==
    /\ fetchingArticles > 0
    /\ fetchingArticles' = fetchingArticles - 1
    /\ IF ok
       THEN /\ articleList' = articles
            /\ UNCHANGED error
       ELSE /\ error' = Some(MsgLoadFailed)
            /\ UNCHANGED articleList
    /\ loading' = FALSE
    /\ UNCHANGED <<stats, statsLoading, fetchingTopic, fetchingStats>>
    /\ UNCHANGED <<filters, panelFilters>>
    /\ UNCHANGED <<monitorVars, searchVars, storeVars, backendVars, pageVars, navVars, articleVars>>

\* fetchStatistics, up to its await (run by the effect on topicId)
FetchStatistics ==
    /\ fetchingStats < MaxStatsFetches
    /\ statsLoading' = TRUE
    /\ fetchingStats' = fetchingStats + 1
    /\ UNCHANGED <<loading, error, stats, fetchingTopic, fetchingArticles>>
    /\ UNCHANGED <<monitorVars, searchVars, topicVars, storeVars, backendVars, pageVars, navVars, articleVars>>

\* fetchStatistics resumes after topicApi.getTopicStatistics
GetTopicStatisticsResponds(outcome) ==
    /\ fetchingStats > 0
    /\ fetchingStats' = fetchingStats - 1
    /\ LET statsData == getTopicStatistics(outcome)
       IN  IF statsData.threw THEN UNCHANGED stats
           ELSE stats' = statsData.value
    /\ statsLoading' = FALSE
    /\ UNCHANGED <<loading, error, fetchingTopic, fetchingArticles>>
    /\ UNCHANGED <<monitorVars, searchVars, topicVars, storeVars, backendVars, pageVars, navVars, articleVars>>

StatsNext ==
    \/ FetchTopic
    \/ \E ok \in BOOLEAN : GetTopicResponds(ok)
    \/ \E ok \in BOOLEAN, articles \in ArticleLists : GetTopicArticlesResponds(ok, articles)
    \/ FetchStatistics
    \/ \E outcome \in StatsOutcomes : GetTopicStatisticsResponds(outcome)

\* --------------------------- the topic page: route, pagination, analysis
\* The backend's articles: topic 1 has MaxPages pages, topic 2 has one. Of
\* the first page of topic 1 the model keeps two articles, one of BBC and
\* one that the backend has not analysed yet, and of every other page one
\* (CNN for the later pages of topic 1, BBC for topic 2); a page outside
\* the range is empty.
ArticleWithId(id) == CHOOSE article \in ArticlePool : article.id = id

\* the article that awaits its analysis; it belongs to topic 1
PendingArticleId == 3

\* an article as the backend holds it: an analysis stamps last_analyzed_at
StoredArticle(id) ==
    IF id = PendingArticleId
    THEN [ArticleWithId(id) EXCEPT
              !.last_analyzed_at = IF serverAnalyzed THEN Some(NowDay) ELSE Null]
    ELSE ArticleWithId(id)

ServerPages(t) == IF t = 1 THEN MaxPages ELSE 1

ServerItems(t, page) ==
    IF page < 1 \/ page > ServerPages(t) THEN <<>>
    ELSE IF t = 1
    THEN IF page = 1 THEN <<StoredArticle(1), StoredArticle(PendingArticleId)>>
         ELSE <<StoredArticle(IF page = 2 THEN 2 ELSE 5)>>
    ELSE <<StoredArticle(4)>>

\* the ArticleList that GET /topics/{t}/articles?page=... answers with;
\* topicId records the topic whose articles these are
ServerArticleList(t, page) ==
    [loaded |-> TRUE, items |-> ServerItems(t, page), total |-> IF t = 1 THEN MaxPages + 1 ELSE 1,
     page |-> page, pages |-> ServerPages(t), topicId |-> t]

\* how the fetch of an analysis request ends: a response with a success
\* status, a response with an error status, or a rejected fetch
AnalysisOutcomes == {"ok", "http_error", "network_error"}

\* the answers to getTopicStatistics that the topic page is followed with
PageStatsOutcomes ==
    {[ok |-> FALSE, data |-> Null],
     [ok |-> TRUE, data |-> Some([ZeroedStats EXCEPT !.totalArticles = 4, !.analyzedArticles = 3,
          !.sentimentDistribution = [positive |-> 2, neutral |-> 0, negative |-> 1],
          !.biasDistribution = [leftLeaning |-> 1, centrist |-> 2, rightLeaning |-> 0],
          !.sourcesCount = 2, !.timeRange = "30 days"])]}

\* a call that awaits something: fetchTopic itself, or an analysis handler
\* (which calls fetchTopic on the way); topicId and page are the values of
\* the render whose closure the call runs in; responseOk is response.ok of
\* the response whose body handleAnalyzeTopic is reading
Thread(kind, t, page, stage) ==
    [kind |-> kind, topicId |-> t, page |-> page, stage |-> stage, articleId |-> 0,
     responseOk |-> FALSE]

AwaitingStage(ths, stage) ==
    LET at == {th \in BagToSet(ths) : th.stage = stage}
    IN  BagCardinality([th \in at |-> ths[th]])

\* fetchingTopic and fetchingArticles count the calls that await getTopic
\* and getTopicArticles
CountersFollow ==
    /\ fetchingTopic' = AwaitingStage(threads', "getTopic")
    /\ fetchingArticles' = AwaitingStage(threads', "getTopicArticles")

\* a call may start: the bound on the calls in flight
MayStart == BagCardinality(threads) < MaxThreads

\* what is left to do when the fetchTopic that a call awaited has returned
AfterFetchTopic(th) ==
    CASE th.kind = "fetchTopic" -> threads (-) SetToBag({th})
      [] th.kind = "analyzeTopic" -> (threads (-) SetToBag({th})) (+) SetToBag({[th EXCEPT !.stage = "getStats"]})
      [] th.kind = "analyzeArticle" -> (threads (-) SetToBag({th})) (+) SetToBag({[th EXCEPT !.stage = "delay"]})

\* the effects after the first render: fetchTopic() and fetchStatistics()
TopicMountEffects ==
    /\ navPhase = "created"
    /\ navPhase' = "mounted"
    /\ threads' = SetToBag({Thread("fetchTopic", routeTopicId, currentPage, "getTopic")})
    /\ loading' = TRUE /\ error' = Null
    /\ statsLoading' = TRUE /\ fetchingStats' = fetchingStats + 1
    /\ CountersFollow
    /\ UNCHANGED <<stats, routeTopicId, currentPage, topic, isAnalyzing, refreshingStats>>
    /\ UNCHANGED <<monitorVars, searchVars, topicVars, storeVars, backendVars, pageVars, articleVars>>

\* the route changes to another topic: the component stays mounted with its
\* state, the effects on topicId run: fetchTopic() and fetchStatistics()
ChangeTopic(t) ==
    /\ navPhase = "mounted"
    /\ t # routeTopicId
    /\ MayStart
    /\ fetchingStats < MaxStatsFetches
    /\ routeTopicId' = t
    /\ threads' = threads (+) SetToBag({Thread("fetchTopic", t, currentPage, "getTopic")})
    /\ loading' = TRUE /\ error' = Null
    /\ statsLoading' = TRUE /\ fetchingStats' = fetchingStats + 1
    /\ CountersFollow
    /\ UNCHANGED <<stats, navPhase, currentPage, topic, isAnalyzing, refreshingStats>>
    /\ UNCHANGED <<monitorVars, searchVars, topicVars, storeVars, backendVars, pageVars, articleVars>>

\* the pages that the buttons of the pagination bar hand to handlePageChange:
\* Previous and Next unless disabled, and one button for each page
PageButtons ==
    (IF currentPage # 1 THEN {currentPage - 1} ELSE {})
        \cup 1..articleList.pages
        \cup (IF currentPage # articleList.pages THEN {currentPage + 1} ELSE {})

\* handlePageChange(page), and the effect on currentPage: fetchTopic()
HandlePageChange(page) ==
    /\ PageRendered /\ articleList.pages > 1
    /\ page \in PageButtons
    /\ IF page >= 1 /\ (~articleList.loaded \/ page <= articleList.pages) /\ page # currentPage
       THEN /\ MayStart
            /\ currentPage' = page
            /\ threads' = threads (+) SetToBag({Thread("fetchTopic", routeTopicId, page, "getTopic")})
            /\ loading' = TRUE /\ error' = Null
       ELSE UNCHANGED <<currentPage, threads, loading, error>>
    /\ CountersFollow
    /\ UNCHANGED <<stats, statsLoading, fetchingStats>>
    /\ UNCHANGED <<navPhase, routeTopicId, topic, isAnalyzing, refreshingStats>>
    /\ UNCHANGED <<monitorVars, searchVars, topicVars, storeVars, backendVars, pageVars, articleVars>>

\* refreshData: fetchTopic() and getTopicStatistics(...).then(setStats)
RefreshData ==
    /\ PageRendered
    /\ MayStart
    /\ refreshingStats < MaxStatsFetches
    /\ threads' = threads (+) SetToBag({Thread("fetchTopic", routeTopicId, currentPage, "getTopic")})
    /\ loading' = TRUE /\ error' = Null
    /\ refreshingStats' = refreshingStats + 1
    /\ CountersFollow
    /\ UNCHANGED <<stats, statsLoading, fetchingStats>>
    /\ UNCHANGED <<navPhase, routeTopicId, currentPage, topic, isAnalyzing>>
    /\ UNCHANGED <<monitorVars, searchVars, topicVars, storeVars, backendVars, pageVars, articleVars>>

\* the getTopicStatistics of refreshData settles: setStats
RefreshStatsSettles(outcome) ==
    /\ refreshingStats > 0
    /\ refreshingStats' = refreshingStats - 1
    /\ LET statsData == getTopicStatistics(outcome)
       IN  IF statsData.threw THEN UNCHANGED stats
           ELSE stats' = statsData.value
    /\ UNCHANGED <<loading, error, statsLoading, fetchingTopic, fetchingArticles, fetchingStats>>
    /\ UNCHANGED <<navPhase, routeTopicId, currentPage, topic, isAnalyzing, threads>>
    /\ UNCHANGED <<monitorVars, searchVars, topicVars, storeVars, backendVars, pageVars, articleVars>>

\* a fetchTopic resumes after topicApi.getTopic: setTopic and the request
\* for the articles, or catch and finally
GetTopicSettles(th, ok) ==
    /\ BagIn(th, threads) /\ th.stage = "getTopic"
    /\ IF ok
       THEN /\ topic' = Some(th.topicId)
            /\ threads' = (threads (-) SetToBag({th})) (+) SetToBag({[th EXCEPT !.stage = "getTopicArticles"]})
            /\ UNCHANGED <<loading, error>>
       ELSE /\ error' = Some(MsgLoadFailed)
            /\ loading' = FALSE
            /\ threads' = AfterFetchTopic(th)
            /\ UNCHANGED topic
    /\ CountersFollow
    /\ UNCHANGED <<stats, statsLoading, fetchingStats>>
    /\ UNCHANGED <<navPhase, routeTopicId, currentPage, isAnalyzing, refreshingStats>>
    /\ UNCHANGED <<monitorVars, searchVars, topicVars, storeVars, backendVars, pageVars, articleVars>>

\* a fetchTopic resumes after topicApi.getTopicArticles, answered with the
\* ArticleList `articles' or rejected: setArticleList, or catch; then finally
GetArticlesSettlesWith(th, ok, articles) ==
    /\ BagIn(th, threads) /\ th.stage = "getTopicArticles"
    /\ IF ok
       THEN /\ articleList' = articles
            /\ UNCHANGED error
       ELSE /\ error' = Some(MsgLoadFailed)
            /\ UNCHANGED articleList
    /\ loading' = FALSE
    /\ threads' = AfterFetchTopic(th)
    /\ CountersFollow
    /\ UNCHANGED <<stats, statsLoading, fetchingStats, filters, panelFilters>>
    /\ UNCHANGED <<navPhase, routeTopicId, currentPage, topic, isAnalyzing, refreshingStats>>
    /\ UNCHANGED <<monitorVars, searchVars, storeVars, backendVars, pageVars, articleVars>>

\* the same in front of the backend of this section
GetArticlesSettles(th, ok) ==
    GetArticlesSettlesWith(th, ok, ServerArticleList(th.topicId, th.page))

\* handleAnalyzeTopic, up to its first await (the button is disabled while
\* isAnalyzing)
HandleAnalyzeTopic ==
    /\ PageRendered /\ ~isAnalyzing
    /\ MayStart
    /\ isAnalyzing' = TRUE
    /\ threads' = threads (+) SetToBag({Thread("analyzeTopic", routeTopicId, currentPage, "post")})
    /\ UNCHANGED <<navPhase, routeTopicId, currentPage, topic, refreshingStats>>
    /\ UNCHANGED <<monitorVars, searchVars, topicVars, statsVars, storeVars, backendVars, pageVars, articleVars>>

\* handleAnalyzeArticle(article.id), up to its await; the Analyze button is
\* rendered for the listed articles that have no last_analyzed_at
HandleAnalyzeArticle(articleId) ==
    /\ PageRendered
    /\ \E i \in 1..Len(filteredArticles) :
          /\ filteredArticles[i].id = articleId
          /\ ~TruthyDate(filteredArticles[i].last_analyzed_at)
    /\ MayStart
    /\ threads' = threads (+) SetToBag({[Thread("analyzeArticle", routeTopicId, currentPage, "post")
                                            EXCEPT !.articleId = articleId]})
    /\ UNCHANGED <<navPhase, routeTopicId, currentPage, topic, isAnalyzing, refreshingStats>>
    /\ UNCHANGED <<monitorVars, searchVars, topicVars, statsVars, storeVars, backendVars, pageVars, articleVars>>

\* the fetch of an analysis request settles. handleAnalyzeTopic goes on to
\* await response.json() whatever the status; handleAnalyzeArticle throws
\* unless response.ok and else calls fetchTopic() at once; a rejected fetch
\* takes both to their catch, and handleAnalyzeTopic to its finally. With a
\* success status the backend has analysed the topic's articles, or the article
AnalysisPostSettles(th, outcome) ==
    /\ BagIn(th, threads) /\ th.stage = "post"
    /\ IF th.kind = "analyzeTopic"
       THEN IF outcome \in {"ok", "http_error"}
            THEN /\ threads' = (threads (-) SetToBag({th}))
                                 (+) SetToBag({[th EXCEPT !.stage = "json",
                                                          !.responseOk = (outcome = "ok")]})
                 /\ UNCHANGED <<isAnalyzing, loading, error>>
            ELSE /\ threads' = threads (-) SetToBag({th})
                 /\ isAnalyzing' = FALSE
                 /\ UNCHANGED <<loading, error>>
       ELSE IF outcome = "ok"
            THEN /\ threads' = (threads (-) SetToBag({th})) (+) SetToBag({[th EXCEPT !.stage = "getTopic"]})
                 /\ loading' = TRUE /\ error' = Null
                 /\ UNCHANGED isAnalyzing
            ELSE /\ threads' = threads (-) SetToBag({th})
                 /\ UNCHANGED <<isAnalyzing, loading, error>>
    /\ CountersFollow
    /\ UNCHANGED <<stats, statsLoading, fetchingStats>>
    /\ UNCHANGED <<navPhase, routeTopicId, currentPage, topic, refreshingStats>>
    /\ serverAnalyzed' =
          \/ serverAnalyzed
          \/ /\ outcome = "ok"
             /\ IF th.kind = "analyzeTopic" THEN th.topicId = 1
                                            ELSE th.articleId = PendingArticleId
    /\ UNCHANGED <<articleStage, articleShown, articleError, analyzing>>
    /\ UNCHANGED <<monitorVars, searchVars, topicVars, storeVars, backendVars, pageVars>>

\* response.json() of handleAnalyzeTopic settles: with the body parsed the
\* handler goes on to wait 3 s; a body that is not JSON (an empty one, say)
\* or that fails to arrive rejects, which takes the handler to its catch
\* and its finally
AnalysisJsonSettles(th, parsed) ==
    /\ BagIn(th, threads) /\ th.stage = "json"
    /\ IF parsed
       THEN /\ threads' = (threads (-) SetToBag({th}))
                            (+) SetToBag({[th EXCEPT !.stage = "wait", !.responseOk = FALSE]})
            /\ UNCHANGED isAnalyzing
       ELSE /\ threads' = threads (-) SetToBag({th})
            /\ isAnalyzing' = FALSE
    /\ UNCHANGED <<navPhase, routeTopicId, currentPage, topic, refreshingStats>>
    /\ UNCHANGED <<monitorVars, searchVars, topicVars, statsVars, storeVars, backendVars, pageVars, articleVars>>

\* a timer of an analysis handler fires: after the 3 s of handleAnalyzeTopic
\* comes its fetchTopic(), after the 1 s of handleAnalyzeArticle its request
\* for the statistics
AnalysisTimerFires(th) ==
    /\ BagIn(th, threads) /\ th.stage \in {"wait", "delay"}
    /\ IF th.stage = "wait"
       THEN /\ threads' = (threads (-) SetToBag({th})) (+) SetToBag({[th EXCEPT !.stage = "getTopic"]})
            /\ loading' = TRUE /\ error' = Null
       ELSE /\ threads' = (threads (-) SetToBag({th})) (+) SetToBag({[th EXCEPT !.stage = "getStats"]})
            /\ UNCHANGED <<loading, error>>
    /\ CountersFollow
    /\ UNCHANGED <<stats, statsLoading, fetchingStats>>
    /\ UNCHANGED <<navPhase, routeTopicId, currentPage, topic, isAnalyzing, refreshingStats>>
    /\ UNCHANGED <<monitorVars, searchVars, topicVars, storeVars, backendVars, pageVars, articleVars>>

\* the getTopicStatistics of an analysis handler settles: setStats, and for
\* handleAnalyzeTopic the finally block
AnalysisStatsSettles(th, outcome) ==
    /\ BagIn(th, threads) /\ th.stage = "getStats"
    /\ threads' = threads (-) SetToBag({th})
    /\ LET statsData == getTopicStatistics(outcome)
       IN  IF statsData.threw THEN UNCHANGED stats
           ELSE stats' = statsData.value
    /\ isAnalyzing' = IF th.kind = "analyzeTopic" THEN FALSE ELSE isAnalyzing
    /\ UNCHANGED <<loading, error, statsLoading, fetchingTopic, fetchingArticles, fetchingStats>>
    /\ UNCHANGED <<navPhase, routeTopicId, currentPage, topic, refreshingStats>>
    /\ UNCHANGED <<monitorVars, searchVars, topicVars, storeVars, backendVars, pageVars, articleVars>>

\* a checkbox of the panel's source list is toggled
ToggleSource(name) ==
    /\ Includes(availableSources, name)
    /\ ToggleFilter("sources", name)

\* what the statistics effect's request, the fetches and the timers do
TopicPageSettles ==
    \/ \E outcome \in PageStatsOutcomes : GetTopicStatisticsResponds(outcome)
    \/ \E outcome \in PageStatsOutcomes : RefreshStatsSettles(outcome)
    \/ \E th \in BagToSet(threads), ok \in BOOLEAN : GetTopicSettles(th, ok)
    \/ \E th \in BagToSet(threads), ok \in BOOLEAN : GetArticlesSettles(th, ok)
    \/ \E th \in BagToSet(threads), outcome \in AnalysisOutcomes : AnalysisPostSettles(th, outcome)
    \/ \E th \in BagToSet(threads), parsed \in BOOLEAN : AnalysisJsonSettles(th, parsed)
    \/ \E th \in BagToSet(threads) : AnalysisTimerFires(th)
    \/ \E th \in BagToSet(threads), outcome \in PageStatsOutcomes : AnalysisStatsSettles(th, outcome)

\* the topic page with its route, its pagination, its source filter and its
\* analysis of the topic
TopicPageNext ==
    \/ TopicMountEffects
    \/ \E t \in TopicIds : ChangeTopic(t)
    \/ \E page \in 0..(MaxPages + 1) : HandlePageChange(page)
    \/ RefreshData
    \/ HandleAnalyzeTopic
    \/ \E name \in {BBC, CNN} : ToggleSource(name)
    \/ TopicPageSettles

\* the ArticleList of a topic whose articles are the one page `items'
OnePageList(items, t) ==
    [loaded |-> TRUE, items |-> items, total |-> Len(items),
     page |-> 1, pages |-> 1, topicId |-> t]

\* the topic page from its first render to its filter panel: the effects
\* run, getTopic and getTopicArticles are answered or rejected, the article
\* page that arrives is any page of Pages, and the panel is used
FilterNext ==
    \/ TopicMountEffects
    \/ \E th \in BagToSet(threads), ok \in BOOLEAN : GetTopicSettles(th, ok)
    \/ \E th \in BagToSet(threads), ok \in BOOLEAN, items \in Pages :
          GetArticlesSettlesWith(th, ok, OnePageList(items, th.topicId))
    \/ \E value \in SentimentOptions : ToggleFilter("sentiment", value)
    \/ \E value \in BiasOptions : ToggleFilter("bias", value)
    \/ \E i \in 1..Len(availableSources) : ToggleFilter("sources", availableSources[i])
    \/ \E value \in DateRangeOptions : SetDateRange(value)
    \/ ClearFilters

\* ------------------------------------------ the article page: handleAnalyze
MsgArticleLoadFailed == "Failed to load article data. Please try again."
MsgAnalyzeFailed == "Failed to analyze article. Please try again."

\* the article that GET /articles/{id} answers with
ServerArticle == StoredArticle(PendingArticleId)

\* the page is opened: the effect's fetchArticle, up to its await
OpenArticle ==
    /\ articleStage = "absent"
    /\ articleStage' = "loading"
    /\ articleError' = Null
    /\ UNCHANGED <<articleShown, analyzing, serverAnalyzed>>
    /\ UNCHANGED <<monitorVars, searchVars, topicVars, statsVars, storeVars, backendVars, pageVars, navVars>>

\* fetchArticle resumes after getArticle: setArticle, or catch; then finally
ArticleLoads(ok) ==
    /\ articleStage = "loading"
    /\ articleStage' = "idle"
    /\ IF ok
       THEN articleShown' = Some(ServerArticle) /\ UNCHANGED articleError
       ELSE articleError' = Some(MsgArticleLoadFailed) /\ UNCHANGED articleShown
    /\ UNCHANGED <<analyzing, serverAnalyzed>>
    /\ UNCHANGED <<monitorVars, searchVars, topicVars, statsVars, storeVars, backendVars, pageVars, navVars>>

\* the Analyze button is rendered for a shown article without analysis and
\* is disabled while analyzing
AnalyzeButtonEnabled ==
    /\ articleStage \in {"idle", "post", "getArticle"}
    /\ articleError = Null /\ articleShown # Null
    /\ articleShown[1].last_analyzed_at = Null
    /\ ~analyzing

\* handleAnalyze, up to its first await
HandleAnalyze ==
    /\ AnalyzeButtonEnabled
    /\ analyzing' = TRUE
    /\ articleStage' = "post"
    /\ UNCHANGED <<articleShown, articleError, serverAnalyzed>>
    /\ UNCHANGED <<monitorVars, searchVars, topicVars, statsVars, storeVars, backendVars, pageVars, navVars>>

\* the POST settles: whatever the status, handleAnalyze goes on to
\* getArticle; a rejected fetch takes it to catch and finally
ArticlePostSettles(outcome) ==
    /\ articleStage = "post"
    /\ serverAnalyzed' = (serverAnalyzed \/ outcome = "ok")
    /\ IF outcome \in {"ok", "http_error"}
       THEN /\ articleStage' = "getArticle"
            /\ UNCHANGED <<articleError, analyzing>>
       ELSE /\ articleStage' = "idle"
            /\ articleError' = Some(MsgAnalyzeFailed)
            /\ analyzing' = FALSE
    /\ UNCHANGED articleShown
    /\ UNCHANGED <<monitorVars, searchVars, topicVars, statsVars, storeVars, backendVars, pageVars, navVars>>

\* handleAnalyze resumes after getArticle: setArticle, or catch; then finally
ArticleRefetchSettles(ok) ==
    /\ articleStage = "getArticle"
    /\ articleStage' = "idle"
    /\ IF ok
       THEN articleShown' = Some(ServerArticle) /\ UNCHANGED articleError
       ELSE articleError' = Some(MsgAnalyzeFailed) /\ UNCHANGED articleShown
    /\ analyzing' = FALSE
    /\ UNCHANGED serverAnalyzed
    /\ UNCHANGED <<monitorVars, searchVars, topicVars, statsVars, storeVars, backendVars, pageVars, navVars>>

\* what the requests of the article page do when they settle
ArticlePageSettles ==
    \/ \E ok \in BOOLEAN : ArticleLoads(ok)
    \/ \E outcome \in AnalysisOutcomes : ArticlePostSettles(outcome)
    \/ \E ok \in BOOLEAN : ArticleRefetchSettles(ok)

\* the next step of one call of the topic page
ThreadSettles(th) ==
    \/ \E ok \in BOOLEAN : GetTopicSettles(th, ok)
    \/ \E ok \in BOOLEAN : GetArticlesSettles(th, ok)
    \/ \E outcome \in AnalysisOutcomes : AnalysisPostSettles(th, outcome)
    \/ \E parsed \in BOOLEAN : AnalysisJsonSettles(th, parsed)
    \/ AnalysisTimerFires(th)
    \/ \E outcome \in PageStatsOutcomes : AnalysisStatsSettles(th, outcome)

\* the topic page and the article page with their analysis handlers
AnalysisNext ==
    \/ TopicMountEffects
    \/ \E outcome \in PageStatsOutcomes : GetTopicStatisticsResponds(outcome)
    \/ HandleAnalyzeTopic
    \/ \E articleId \in {article.id : article \in ArticlePool} : HandleAnalyzeArticle(articleId)
    \/ \E th \in BagToSet(threads) : ThreadSettles(th)
    \/ OpenArticle
    \/ HandleAnalyze
    \/ ArticlePageSettles

\* ------------------------------------ the arithmetic of JavaScript numbers
\* A finite non-negative value is kept exactly as an integer written in
\* limbs of LimbBits bits (most significant first) scaled by a power of
\* two: value = limbs * 2^exp. A number (IEEE-754 binary64) is such a value
\* with at most MantissaBits significant bits; every arithmetic operation is
\* the exact result rounded to nearest, ties to even.
MantissaBits == 53
LimbBits == 15
LimbBase == 32768

RECURSIVE Pow2(_)
Pow2(n) == IF n = 0 THEN 1 ELSE 2 * Pow2(n - 1)

RECURSIVE BitLength(_)
BitLength(n) == IF n = 0 THEN 0 ELSE 1 + BitLength(n \div 2)

Min(a, b) == IF a < b THEN a ELSE b
Max(a, b) == IF a > b THEN a ELSE b

Front(seq) == SubSeq(seq, 1, Len(seq) - 1)

ZeroLimbs(n) == [i \in 1..n |-> 0]

RECURSIVE IntLimbs(_)
IntLimbs(n) == IF n = 0 THEN <<>> ELSE Append(IntLimbs(n \div LimbBase), n % LimbBase)

RECURSIVE LimbsToInt(_)
LimbsToInt(limbs) ==
    IF limbs = <<>> THEN 0 ELSE LimbBase * LimbsToInt(Front(limbs)) + limbs[Len(limbs)]

RECURSIVE StripLimbs(_)
StripLimbs(limbs) ==
    IF limbs # <<>> /\ Head(limbs) = 0 THEN StripLimbs(Tail(limbs)) ELSE limbs

PadLeft(limbs, n) == ZeroLimbs(n - Len(limbs)) \o limbs

\* the sum of two limb strings of one length and a carry
RECURSIVE AddLimbs(_, _, _)
AddLimbs(a, b, carry) ==
    IF a = <<>> THEN IntLimbs(carry)
    ELSE LET t == a[Len(a)] + b[Len(b)] + carry
         IN  Append(AddLimbs(Front(a), Front(b), t \div LimbBase), t % LimbBase)

\* the product of a limb string and a small integer, plus a carry
RECURSIVE MulLimbs(_, _, _)
MulLimbs(a, k, carry) ==
    IF a = <<>> THEN IntLimbs(carry)
    ELSE LET t == a[Len(a)] * k + carry
         IN  Append(MulLimbs(Front(a), k, t \div LimbBase), t % LimbBase)

\* the next count limbs of the quotient of r / d (r < d), then one limb that
\* tells whether a remainder is left
RECURSIVE FracLimbs(_, _, _)
FracLimbs(r, d, count) ==
    IF count = 0 THEN <<IF r = 0 THEN 0 ELSE 1>>
    ELSE <<(r * LimbBase) \div d>> \o FracLimbs((r * LimbBase) % d, d, count - 1)

\* how often n must be doubled to reach d
RECURSIVE NormShift(_, _)
NormShift(n, d) == IF n >= d THEN 0 ELSE 1 + NormShift(2 * n, d)

FromInt(n) == [limbs |-> IntLimbs(n), exp |-> 0]

\* the limbs of a value written with the smaller exponent e
Align(x, e) ==
    MulLimbs(x.limbs, Pow2((x.exp - e) % LimbBits), 0) \o ZeroLimbs((x.exp - e) \div LimbBits)

\* the cut at MantissaBits significant bits without rounding (round toward zero)
ToDouble_Truncating(x) ==
    LET l == StripLimbs(x.limbs)
        length == LimbBits * (Len(l) - 1) + BitLength(l[1])
        k == (LimbBits - ((length - MantissaBits) % LimbBits)) % LimbBits
        shifted == StripLimbs(MulLimbs(l, Pow2(k), 0))
        q == (length + k - MantissaBits) \div LimbBits
    IN  IF l = <<>> THEN FromInt(0)
        ELSE IF length <= MantissaBits THEN [limbs |-> l, exp |-> x.exp]
        ELSE [limbs |-> SubSeq(shifted, 1, Len(shifted) - q),
              exp |-> x.exp - k + LimbBits * q]

\* rounding to nearest, ties to even, at MantissaBits significant bits: the
\* value is shifted left until the cut falls between two limbs
ToDouble(x) ==
    LET l == StripLimbs(x.limbs)
        length == LimbBits * (Len(l) - 1) + BitLength(l[1])
        k == (LimbBits - ((length - MantissaBits) % LimbBits)) % LimbBits
        shifted == StripLimbs(MulLimbs(l, Pow2(k), 0))
        q == (length + k - MantissaBits) \div LimbBits
        kept == SubSeq(shifted, 1, Len(shifted) - q)
        dropped == SubSeq(shifted, Len(shifted) - q + 1, Len(shifted))
        guard == dropped[1] >= LimbBase \div 2
        sticky == \/ dropped[1] % (LimbBase \div 2) # 0
                  \/ \E i \in 2..q : dropped[i] # 0
        roundUp == guard /\ (sticky \/ kept[Len(kept)] % 2 = 1)
    IN  IF l = <<>> THEN FromInt(0)
        ELSE IF length <= MantissaBits THEN [limbs |-> l, exp |-> x.exp]
        ELSE [limbs |-> IF roundUp THEN AddLimbs(kept, ZeroLimbs(Len(kept)), 1) ELSE kept,
              exp |-> x.exp - k + LimbBits * q]

\* n / d for integers n >= 0 and d > 0
Divide(n, d) ==
    IF n = 0 THEN FromInt(0)
    ELSE LET s == NormShift(n, d)
             m == n * Pow2(s)
         IN  ToDouble([limbs |-> IntLimbs(m \div d) \o FracLimbs(m % d, d, 4),
                       exp |-> 0 - 5 * LimbBits - s])

\* x * k for a number x and a small integer k
Times(x, k) == ToDouble([limbs |-> MulLimbs(x.limbs, k, 0), exp |-> x.exp])

\* x + y
Plus(x, y) ==
    LET e == Min(x.exp, y.exp)
        a == Align(x, e)
        b == Align(y, e)
        n == Max(Len(a), Len(b))
    IN  ToDouble([limbs |-> AddLimbs(PadLeft(a, n), PadLeft(b, n), 0), exp |-> e])

RECURSIVE LexGreater(_, _)
LexGreater(a, b) ==
    IF a = <<>> THEN FALSE
    ELSE IF Head(a) # Head(b) THEN Head(a) > Head(b)
    ELSE LexGreater(Tail(a), Tail(b))

\* x > y
Greater(x, y) ==
    LET e == Min(x.exp, y.exp)
        a == StripLimbs(Align(x, e))
        b == StripLimbs(Align(y, e))
    IN  IF Len(a) # Len(b) THEN Len(a) > Len(b) ELSE LexGreater(a, b)

\* Math.round(x): the integer nearest to x, a tie going up
MathRound(x) ==
    LET fraction == (0 - Min(x.exp, 0 - 1) + LimbBits - 1) \div LimbBits
        e == 0 - LimbBits * fraction
        a == Align(x, e)
        half == Align([limbs |-> <<1>>, exp |-> 0 - 1], e)
        n == Max(Len(a), Len(half))
        sum == AddLimbs(PadLeft(a, n), PadLeft(half, n), 0)
    IN  LimbsToInt(SubSeq(sum, 1, Len(sum) - fraction))

\* (part / total) * 100
Percent(part, total) == Times(Divide(part, total), 100)

\* -------------------------------------------- the TopicStatistics component
\* analysisPercentage
analysisPercentage(safeStats) ==
    IF safeStats.totalArticles > 0
    THEN MathRound(Percent(safeStats.analyzedArticles, safeStats.totalArticles))
    ELSE 0

\* getBiasLabel
getBiasLabel(safeStats) ==
    LET leftLeaning == safeStats.biasDistribution.leftLeaning
        centrist == safeStats.biasDistribution.centrist
        rightLeaning == safeStats.biasDistribution.rightLeaning
        total == leftLeaning + centrist + rightLeaning
    IN  IF total = 0 \/ safeStats.analyzedArticles = 0 THEN "Unknown"
        ELSE LET leftPercent == Percent(leftLeaning, total)
                 rightPercent == Percent(rightLeaning, total)
                 centristPercent == Percent(centrist, total)
             IN  IF Greater(centristPercent, FromInt(60)) THEN "Mostly Centrist"
                 ELSE IF Greater(leftPercent, Plus(rightPercent, FromInt(20))) THEN "Left-Leaning"
                 ELSE IF Greater(rightPercent, Plus(leftPercent, FromInt(20))) THEN "Right-Leaning"
                 ELSE "Mixed Perspectives"

\* ------------------------------------------------------ the sources store
MsgRequestFailed == <<"Request failed with status code 500">>
MsgAnErrorOccurred == <<"An error occurred">>

\* how a call to sourceApi ends: with a response, with an Error (an
\* AxiosError and its message), or with a rejection that is no Error
ApiOutcomes == {"ok", "error", "not_an_error"}

ErrorText_Cleared(outcome) == Null

\* err instanceof Error ? err.message : 'An error occurred'
ErrorText(outcome) ==
    IF outcome = "error" THEN Some(MsgRequestFailed) ELSE Some(MsgAnErrorOccurred)

\* the lists GET /sources can answer with: no id twice
SourceLists ==
    {<<>>} \cup {<<source>> : source \in Sources}
        \cup {pair \in Sources \X Sources : pair[1].id # pair[2].id}

StoreCallsInFlight ==
    LET RECURSIVE Sum(_)
        Sum(ops) == IF ops = {} THEN 0
                    ELSE LET call == CHOOSE c \in ops : TRUE
                         IN  storeCalls[call] + Sum(ops \ {call})
    IN  Sum(StoreOps)

\* prev.map(source => source.id === id ? updatedSource : source)
RECURSIVE MapSources(_, _, _)
MapSources(prev, id, updatedSource) ==
    IF prev = <<>> THEN <<>>
    ELSE <<IF Head(prev).id = id THEN updatedSource ELSE Head(prev)>>
             \o MapSources(Tail(prev), id, updatedSource)

\* prev.filter(source => source.id !== id)
FilterSources(prev, id) ==
    LET Other(source) == source.id # id
    IN  SelectSeq(prev, Other)

\* an operation of the store, up to its await: fetchSources (also run by the
\* provider's mount effect), createSource, updateSource or deleteSource
StartStoreCall(call) ==
    /\ StoreCallsInFlight < MaxStoreCalls
    /\ storeLoading' = TRUE
    /\ storeError' = Null
    /\ storeCalls' = [storeCalls EXCEPT ![call] = @ + 1]
    /\ UNCHANGED <<sources, storeResolved>>
    /\ UNCHANGED <<monitorVars, searchVars, topicVars, statsVars, pageVars, navVars, articleVars>>

\* the part of every operation after its await that is common to all four:
\* the catch block's setError and the finally block's setLoading(false)
SettleStoreCall(call, outcome) ==
    /\ storeCalls[call] > 0
    /\ storeCalls' = [storeCalls EXCEPT ![call] = @ - 1]
    /\ storeError' = IF outcome = "ok" THEN storeError ELSE ErrorText(outcome)
    /\ storeLoading' = FALSE
    /\ UNCHANGED <<monitorVars, searchVars, topicVars, statsVars, pageVars, navVars, articleVars>>

\* fetchSources resumes after sourceApi.getSources
FetchSourcesSettles(outcome, data) ==
    /\ SettleStoreCall([op |-> "fetchSources", id |-> 0], outcome)
    /\ sources' = IF outcome = "ok" THEN data ELSE sources
    /\ storeResolved' = Resolved("undefined", Null)

\* createSource resumes after sourceApi.createSource
CreateSourceSettles(outcome, newSource) ==
    /\ SettleStoreCall([op |-> "createSource", id |-> 0], outcome)
    /\ outcome = "ok" => Len(sources) < MaxSources
    /\ sources' = IF outcome = "ok" THEN Append(sources, newSource) ELSE sources
    /\ storeResolved' = IF outcome = "ok" THEN Resolved("source", Some(newSource))
                        ELSE Resolved("null", Null)

\* updateSource resumes after sourceApi.updateSource
UpdateSourceSettles(id, outcome, updatedSource) ==
    /\ SettleStoreCall([op |-> "updateSource", id |-> id], outcome)
    /\ sources' = IF outcome = "ok" THEN MapSources(sources, id, updatedSource) ELSE sources
    /\ storeResolved' = IF outcome = "ok" THEN Resolved("source", Some(updatedSource))
                        ELSE Resolved("null", Null)

\* deleteSource resumes after sourceApi.deleteSource
DeleteSourceSettles(id, outcome) ==
    /\ SettleStoreCall([op |-> "deleteSource", id |-> id], outcome)
    /\ sources' = IF outcome = "ok" THEN FilterSources(sources, id) ELSE sources
    /\ storeResolved' = IF outcome = "ok" THEN Resolved("true", Null)
                        ELSE Resolved("false", Null)

StoreNext ==
    \/ \E call \in StoreOps : StartStoreCall(call) /\ UNCHANGED backendVars
    \/ \E outcome \in ApiOutcomes :
         \E data \in IF outcome = "ok" THEN SourceLists ELSE {<<>>} :
           FetchSourcesSettles(outcome, data) /\ UNCHANGED backendVars
    \/ \E outcome \in ApiOutcomes :
         \E newSource \in IF outcome = "ok" THEN Sources ELSE {CHOOSE source \in Sources : TRUE} :
           CreateSourceSettles(outcome, newSource) /\ UNCHANGED backendVars
    \/ \E id \in SourceIds, outcome \in ApiOutcomes :
         \E title \in IF outcome = "ok" THEN SourceTitles ELSE {CHOOSE title \in SourceTitles : TRUE} :
           UpdateSourceSettles(id, outcome, [id |-> id, title |-> title]) /\ UNCHANGED backendVars
    \/ \E id \in SourceIds, outcome \in ApiOutcomes :
           DeleteSourceSettles(id, outcome) /\ UNCHANGED backendVars


\* ------------------------------------- the sources store with its backend
\* how the backend answers a request of the provider: GET /sources lists
\* what it holds, POST /sources adds a source under the next id, PUT and
\* DELETE /sources/{id} act on the source of that id or answer 404; any
\* request can fail (fails) without effect
BackendAnswer(request, fails) ==
    LET op == request.call.op
        id == request.call.id
        exists == \E i \in 1..Len(backend) : backend[i].id = id
        created == [id |-> nextId, title |-> request.title]
        updated == [id |-> id, title |-> request.title]
        unchanged == [outcome |-> "error", value |-> <<>>, backend |-> backend, nextId |-> nextId]
    IN  IF fails THEN unchanged
        ELSE CASE op = "fetchSources" -> [unchanged EXCEPT !.outcome = "ok", !.value = backend]
               [] op = "createSource" ->
                      [outcome |-> "ok", value |-> <<created>>,
                       backend |-> Append(backend, created), nextId |-> nextId + 1]
               [] op = "updateSource" ->
                      IF exists
                      THEN [unchanged EXCEPT !.outcome = "ok", !.value = <<updated>>,
                                             !.backend = MapSources(backend, id, updated)]
                      ELSE unchanged
               [] op = "deleteSource" ->
                      IF exists
                      THEN [unchanged EXCEPT !.outcome = "ok", !.backend = FilterSources(backend, id)]
                      ELSE unchanged

\* an operation of the store is called and its request leaves for the backend
SendStoreCall(call, title) ==
    /\ StartStoreCall(call)
    /\ wire' = wire (+) SetToBag({[call |-> call, title |-> title, stage |-> "sent",
                                   outcome |-> "ok", value |-> <<>>]})
    /\ UNCHANGED <<backend, nextId>>

\* the backend handles a request; its answer leaves for the provider
BackendAnswers(request, fails) ==
    /\ BagIn(request, wire) /\ request.stage = "sent"
    /\ (request.call.op = "createSource" /\ ~fails) => nextId \in SourceIds
    /\ LET answer == BackendAnswer(request, fails)
       IN  /\ backend' = answer.backend
           /\ nextId' = answer.nextId
           /\ wire' = (wire (-) SetToBag({request}))
                        (+) SetToBag({[request EXCEPT !.stage = "answered", !.outcome = answer.outcome,
                                                      !.value = answer.value]})
    /\ UNCHANGED <<monitorVars, searchVars, topicVars, statsVars, storeVars, pageVars, navVars, articleVars>>

\* an answer reaches the provider: the operation resumes after its await
ResponseArrives(response) ==
    /\ BagIn(response, wire) /\ response.stage = "answered"
    /\ wire' = wire (-) SetToBag({response})
    /\ UNCHANGED <<backend, nextId>>
    /\ CASE response.call.op = "fetchSources" ->
                FetchSourcesSettles(response.outcome, response.value)
         [] response.call.op = "createSource" ->
                CreateSourceSettles(response.outcome,
                    IF response.outcome = "ok" THEN response.value[1]
                    ELSE [id |-> 0, title |-> response.title])
         [] response.call.op = "updateSource" ->
                UpdateSourceSettles(response.call.id, response.outcome,
                    IF response.outcome = "ok" THEN response.value[1]
                    ELSE [id |-> 0, title |-> response.title])
         [] response.call.op = "deleteSource" ->
                DeleteSourceSettles(response.call.id, response.outcome)

\* the titles a call can carry in its request body: createSource and
\* updateSource send one, the other operations send no body
RequestTitles(call) ==
    IF call.op \in {"createSource", "updateSource"} THEN SourceTitles ELSE {""}

BackendStoreNext ==
    \/ \E call \in StoreOps : \E title \in RequestTitles(call) : SendStoreCall(call, title)
    \/ \E request \in BagToSet(wire), fails \in BOOLEAN : BackendAnswers(request, fails)
    \/ \E response \in BagToSet(wire) : ResponseArrives(response)

\* the provider in front of a backend that holds no source or one source
BackendStoreInit ==
    /\ MonitorInit /\ SearchInit /\ TopicInit /\ StatsInit /\ StoreInit
    /\ BackendInit /\ PageInit /\ NavInit /\ ArticleInit

Init ==
    /\ MonitorInit /\ SearchInit /\ TopicInit /\ StatsInit /\ StoreInit
    /\ BackendInit /\ backend = <<>>
    /\ PageInit /\ NavInit /\ ArticleInit

\* the readiness monitor on its own
Next == MonitorNext

\* the search page with its readiness monitor
SearchPageNext == PageNext \/ SearchNext

Spec == Init /\ [][Next]_vars

SearchSpec == Init /\ [][SearchPageNext]_vars

\* the deployed application
FilterInit == Init /\ isProduction

\* the topic page loading one article page, and its filter panel
FilterSpec == FilterInit /\ [][FilterNext]_vars

\* the sources store in front of its backend
BackendStoreSpec == BackendStoreInit /\ [][BackendStoreNext]_vars

\* the banner's monitor and the Search page's monitor side by side
TwoMonitorsNext == MonitorNext \/ PageNext

TwoMonitorsSpec == Init /\ [][TwoMonitorsNext]_vars

\* the topic page under navigation
TopicPageSpec == Init /\ [][TopicPageNext]_vars

\* the pages on localhost, where the URLs of the analysis handlers point
AnalysisInit == Init /\ ~isProduction

\* the analysis handlers; a request that stays unanswered is answered and a
\* timer that stays armed fires, stage by stage of each kind of call
AnalysisSpec ==
    /\ AnalysisInit /\ [][AnalysisNext]_vars
    /\ \A kind \in {"fetchTopic", "analyzeTopic", "analyzeArticle"},
          stage \in {"post", "json", "wait", "delay", "getTopic", "getTopicArticles", "getStats"} :
          WF_vars(\E th \in BagToSet(threads) : th.kind = kind /\ th.stage = stage /\ ThreadSettles(th))
    /\ WF_vars(ArticlePageSettles)

\* the topic page loading its article page and its statistics
StatsSpec == Init /\ [][StatsNext]_vars

\* the sources store with the calls of its operations in flight
StoreSpec == Init /\ [][StoreNext]_vars

\* the browser runs a pending timeout's callback unless it is cleared first
LiveSpec == Init /\ [][Next]_vars /\ WF_vars(FallbackTimerFires)

\* ------------------------------------------------------------------ claims
\* the flags of the state the spec calls healthy
HealthyFlags(st) == st.isHealthy /\ ~st.isChecking /\ ~st.isSpinningUp

\* the state the spec calls unavailable
UnavailableFlags(st) == ~st.isHealthy /\ ~st.isChecking /\ st.message = MsgUnavailable

\* a probe of the mounted monitor succeeds
ProbeSucceeds == \E outcome \in ProbeOutcomes : checkHealth(outcome) /\ ProbeCompletes(outcome)

\* a probe of the mounted monitor fails and takes the counter to the maximum
ProbeExhaustsBudget ==
    \E outcome \in ProbeOutcomes :
        /\ ~checkHealth(outcome)
        /\ status.retryCount + 1 >= maxRetries
        /\ ProbeCompletes(outcome)

\* C1: a probe success takes the monitor to healthy and cancels every scheduled
\* probe: no interval is left active after it, whatever retries came before.
C1_SuccessCancelsAllProbes ==
    [][ProbeSucceeds => (HealthyFlags(status') /\ intervals' = {})]_vars

\* C2: the failed probe that takes the retry counter to maxRetries makes the
\* monitor unavailable and leaves no probe scheduled.
C2_ExhaustedStopsPolling ==
    [][ProbeExhaustsBudget => (UnavailableFlags(status') /\ intervals' = {})]_vars

\* C3: retryHealthCheck, from any state, sets the counter to zero and the
\* status to checking (not healthy, not spinning up), issues one probe at once
\* and starts the interval of the new cycle.
C3_RetryRestartsCycle ==
    [][RetryHealthCheck =>
        /\ status' = [isHealthy |-> FALSE, isChecking |-> TRUE, isSpinningUp |-> FALSE,
                      retryCount |-> 0, message |-> MsgChecking]
        /\ inflight' = inflight + 1
        /\ intervalRef' # 0 /\ intervalRef' \in intervals']_vars

\* C3 witness: a retry has acted on a monitor that the fallback timer had made
\* healthy: the cycle restarted from checking with a probe in flight.
C3_Witness ==
    /\ phase = "mounted" /\ timer = "fired"
    /\ status.isChecking /\ ~status.isHealthy /\ status.retryCount = 0
    /\ inflight > 0 /\ intervalRef # 0

\* C4: once the monitor is torn down, neither an interval nor the fallback
\* timer of that monitor is left scheduled.
C4_TeardownCancelsAll ==
    phase = "unmounted" => (intervals = {} /\ timer # "pending")

\* C5: creating the monitor in production mode issues a probe at once.
C5_ProbeOnCreation ==
    [][(MountEffect /\ isProduction) => inflight' > inflight]_vars

\* C6: the fallback timer's callback sets the monitor healthy whatever the
\* probes did, and while the timer is pending the monitor goes on to report
\* healthy unless it is torn down first.
C6_FallbackReachesHealthy ==
    /\ [][FallbackTimerFires => HealthyFlags(status')]_vars
    /\ (timer = "pending") ~> (status.isHealthy \/ phase = "unmounted")

\* C6 witness: healthy through the fallback timer alone, no probe was issued.
C6_Witness ==
    /\ phase = "mounted" /\ timer = "fired" /\ status.isHealthy
    /\ status.message = MsgFallbackReady /\ intervals = {} /\ inflight = 0

\* a text of white space and line terminators only
IsBlank(q) == \A i \in 1..Len(q) : IsSpace(q[i])

SatisfiesSelection(selection, field) ==
    Len(selection) = 0 \/ (field # Null /\ Includes(selection, field[1]))

\* C8: every article of the filtered result satisfies each non-empty
\* dimension of the criteria: its sentiment, bias and source values are
\* non-null and selected (so an article with a null label is excluded as
\* soon as that dimension is constrained).
C8_FilteredSatisfyCriteria ==
    \A i \in 1..Len(filteredArticles) :
        LET article == filteredArticles[i]
        IN  /\ SatisfiesSelection(filters.sentiment, article.sentiment_label)
            /\ SatisfiesSelection(filters.bias, article.political_bias_label)
            /\ SatisfiesSelection(filters.sources, article.source_name)

\* C9: under a 'last N days' criterion every article of the filtered result
\* has a published timestamp, not before now - N days and not after now;
\* under 'all' no article is removed for its date.
C9_DateWindow ==
    /\ filters.dateRange # "all" =>
           \A i \in 1..Len(filteredArticles) :
               LET article == filteredArticles[i]
               IN  /\ article.published_at # Null
                   /\ article.published_at[1] >= NowDay - parseInt(filters.dateRange)
                   /\ article.published_at[1] <= NowDay
    /\ filters.dateRange = "all" =>
           \A i \in 1..Len(articleList.items) : PassesDate(articleList.items[i], filters)

\* C10: with nothing selected in any dimension and the date range 'all' the
\* filtered result is the page itself, and clearFilters leads to that state
\* from whatever had been selected.
C10_EmptyCriteriaIdentity ==
    /\ [](/\ filters.sentiment = <<>> /\ filters.bias = <<>>
          /\ filters.sources = <<>> /\ filters.dateRange = "all"
          => filteredArticles = articleList.items)
    /\ [][ClearFilters =>
            /\ filters' = [sentiment |-> <<>>, bias |-> <<>>, sources |-> <<>>,
                           dateRange |-> "all"]
            /\ filteredArticles' = articleList'.items]_vars

\* C10 witness: nothing is selected on a page of two articles, one of them
\* without labels, source and date, and the filtered result is that page.
C10_Witness ==
    /\ PageRendered /\ Len(articleList.items) = 2
    /\ \E i \in 1..2 : articleList.items[i].published_at = Null
    /\ filters = defaultFilters /\ panelFilters = defaultFilters
    /\ filteredArticles = articleList.items

\* the date rule of applyFilters: unrestricted, or a published timestamp
\* that lies in [now - N days, now]
InDateWindow(dateRange, published_at) ==
    dateRange = "all" \/ (/\ published_at # Null
                          /\ published_at[1] >= NowDay - parseInt(dateRange)
                          /\ published_at[1] <= NowDay)

\* an article passes the four dimensions of the criteria
PassesAllDimensions(article, f) ==
    /\ SatisfiesSelection(f.sentiment, article.sentiment_label)
    /\ SatisfiesSelection(f.bias, article.political_bias_label)
    /\ SatisfiesSelection(f.sources, article.source_name)
    /\ InDateWindow(f.dateRange, article.published_at)

\* C11: the filtered result is the subsequence of the page, in the page's
\* order and without repetition, of exactly the articles that pass all four
\* dimensions of the criteria.
C11_FilteredIsSubsequence ==
    articleList.loaded =>
        LET Passes(article) == PassesAllDimensions(article, filters)
        IN  filteredArticles = SelectSeq(articleList.items, Passes)

\* the source names of the page that are not null
NonNullNames ==
    {articleList.items[i].source_name[1] :
        i \in {j \in 1..Len(articleList.items) : articleList.items[j].source_name # Null}}

\* a sequence of names without duplicates, ascending by code units
StrictlyAscending(names) ==
    \A i, j \in 1..Len(names) : i < j => StrLess(names[i], names[j])

\* C12 as stated: the available-source list holds exactly the distinct
\* non-null source names of the page, without duplicates, in ascending order,
\* and is empty for an empty or missing page.
C12_SourcesAreNonNullNames ==
    /\ {availableSources[i] : i \in 1..Len(availableSources)} = NonNullNames
    /\ StrictlyAscending(availableSources)
    /\ (~articleList.loaded \/ articleList.items = <<>>) => availableSources = <<>>

\* C12 amended: the available-source list holds exactly the distinct source
\* names of the page that are neither null nor the empty string, without
\* duplicates, in ascending order of code units, and is empty for an empty or
\* missing page.
C12_SourcesAreNonEmptyNames ==
    /\ {availableSources[i] : i \in 1..Len(availableSources)} = NonNullNames \ {<<>>}
    /\ StrictlyAscending(availableSources)
    /\ (~articleList.loaded \/ articleList.items = <<>>) => availableSources = <<>>

\* C12 witness: a page of two articles, one named BBC and one whose source
\* name is the empty string, has BBC as its only available source.
C12_Witness ==
    /\ articleList.loaded /\ Len(articleList.items) = 2
    /\ \E i \in 1..2 : articleList.items[i].source_name = Some(<<>>)
    /\ availableSources = <<BBC>>

\* C13: the aggregate computed from an empty article list has total 0,
\* analyzed 0, every sentiment and bias count 0 and sourcesCount 0, and the
\* analysis coverage of a displayed aggregate whose total is zero is 0.
C13_EmptyAggregateIsZero ==
    /\ (articleList.loaded /\ articleList.items = <<>>) =>
           LET aggregate == localStats[1]
           IN  /\ aggregate.totalArticles = 0
               /\ aggregate.analyzedArticles = 0
               /\ aggregate.sentimentDistribution = [positive |-> 0, neutral |-> 0, negative |-> 0]
               /\ aggregate.biasDistribution = [leftLeaning |-> 0, centrist |-> 0, rightLeaning |-> 0]
               /\ aggregate.sourcesCount = 0
    /\ (displayStats # Null /\ displayStats[1].totalArticles = 0) =>
           analysisPercentage(displayStats[1]) = 0

\* the bias bucket of an article: 'neutral' goes with 'centrist'
BiasBucket(article) ==
    CASE article.political_bias_label \in {Some("centrist"), Some("neutral")} -> "centrist"
      [] article.political_bias_label = Some("left-leaning") -> "leftLeaning"
      [] article.political_bias_label = Some("right-leaning") -> "rightLeaning"
      [] OTHER -> "none"

\* how many of the articles at the given positions of the page are in a bucket
InBucket(positions, bucket) ==
    Cardinality({i \in positions : BiasBucket(articleList.items[i]) = bucket})

\* C14: in localStats and in getBiasStats (which looks at analysed articles
\* only) the centrist count is the number of articles labelled 'centrist' or
\* 'neutral', the left and right counts are the numbers of articles with
\* exactly those labels, and the three counts together never exceed the
\* number of articles counted.
C14_NeutralCountsAsCentrist ==
    articleList.loaded =>
        LET all == 1..Len(articleList.items)
            analysed == {i \in all : articleList.items[i].last_analyzed_at # Null}
            page == localStats[1].biasDistribution
        IN  /\ \A bucket \in {"leftLeaning", "centrist", "rightLeaning"} :
                   page[bucket] = InBucket(all, bucket)
            /\ page.leftLeaning + page.centrist + page.rightLeaning <= Len(articleList.items)
            /\ getBiasStats # Null =>
                   LET political == getBiasStats[1].political
                   IN  /\ \A bucket \in {"leftLeaning", "centrist", "rightLeaning"} :
                              political[bucket] = InBucket(analysed, bucket)
                       /\ political.leftLeaning + political.centrist + political.rightLeaning
                              <= getBiasStats[1].analyzed

\* C14 witness: a page of an analysed article labelled 'neutral' and one
\* labelled 'centrist': both aggregates count two centrist articles.
C14_Witness ==
    /\ articleList.loaded /\ Len(articleList.items) = 2
    /\ \E i, j \in 1..2 :
           /\ articleList.items[i].political_bias_label = Some("neutral")
           /\ articleList.items[j].political_bias_label = Some("centrist")
    /\ localStats[1].biasDistribution.centrist = 2
    /\ getBiasStats # Null /\ getBiasStats[1].political.centrist = 2

\* the call of a store operation settles with the given outcome
StoreCallSettles(call, outcome) ==
    CASE call.op = "fetchSources" -> \E data \in SourceLists : FetchSourcesSettles(outcome, data)
      [] call.op = "createSource" -> \E newSource \in Sources : CreateSourceSettles(outcome, newSource)
      [] call.op = "updateSource" ->
             \E title \in SourceTitles :
                 UpdateSourceSettles(call.id, outcome, [id |-> call.id, title |-> title])
      [] call.op = "deleteSource" -> DeleteSourceSettles(call.id, outcome)

\* what a failed call resolves to: null for createSource and updateSource,
\* false for deleteSource, and no value for fetchSources, which returns none
FailureResult(op) ==
    CASE op = "fetchSources" -> "undefined"
      [] op \in {"createSource", "updateSource"} -> "null"
      [] op = "deleteSource" -> "false"

\* C15: when the request of fetchSources, createSource, updateSource or
\* deleteSource fails, the sources list stays as it is, the error state holds
\* a non-empty text, loading is false, and the call resolves (to null, to
\* false, or without a value for fetchSources) instead of throwing.
C15_FailureKeepsSources ==
    [][\A call \in StoreOps, outcome \in ApiOutcomes \ {"ok"} :
           StoreCallSettles(call, outcome) =>
               /\ sources' = sources
               /\ storeError' # Null /\ storeError'[1] # <<>> /\ storeError'[1] # <<"">>
               /\ storeLoading' = FALSE
               /\ storeResolved' = Resolved(FailureResult(call.op), Null)]_vars

\* C15 witness: a deleteSource failed on a list that holds sources: the list
\* is still there, the error is set and loading is over.
C15_Witness ==
    /\ sources # <<>>
    /\ storeError # Null /\ ~storeLoading
    /\ storeResolved = Resolved("false", Null)
    /\ StoreCallsInFlight = 0

\* the responses the claim C16 is about: the request failed, the response
\* has no payload, or its payload counts no article
FailedOrEmptyOutcomes ==
    {outcome \in StatsOutcomes :
        ~outcome.ok \/ outcome.data = Null \/ outcome.data[1].totalArticles = 0}

\* an aggregate whose counts are all zero
IsZeroedAggregate(value) ==
    /\ value # Null
    /\ value[1].totalArticles = 0 /\ value[1].analyzedArticles = 0
    /\ value[1].sentimentDistribution = [positive |-> 0, neutral |-> 0, negative |-> 0]
    /\ value[1].biasDistribution = [leftLeaning |-> 0, centrist |-> 0, rightLeaning |-> 0]
    /\ value[1].sourcesCount = 0

\* after such a response the page shows the aggregate of its article page
\* and its error state is what it was
FallsBackToLocalStats ==
    \A outcome \in FailedOrEmptyOutcomes :
        GetTopicStatisticsResponds(outcome) =>
            /\ displayStats' = localStats'
            /\ error' = error
            /\ statsLoading' = FALSE

\* C16 as stated: for a failed request, a missing payload and a zero-total
\* payload alike getTopicStatistics returns a zeroed aggregate without
\* throwing, the page shows the local aggregate and sets no error.
C16_ZeroedAggregateReturned ==
    /\ \A outcome \in FailedOrEmptyOutcomes :
           /\ ~getTopicStatistics(outcome).threw
           /\ IsZeroedAggregate(getTopicStatistics(outcome).value)
    /\ [][FallsBackToLocalStats]_vars

\* C16 amended: getTopicStatistics never throws; for a failed request it
\* returns the zeroed aggregate, for a response it returns the payload as
\* received, be it missing or zero-total; in the three cases the page shows
\* the local aggregate of its article page and sets no error.
C16_LocalAggregateDisplayed ==
    /\ \A outcome \in StatsOutcomes :
           /\ ~getTopicStatistics(outcome).threw
           /\ getTopicStatistics(outcome).value =
                  IF outcome.ok THEN outcome.data ELSE Some(ZeroedStats)
    /\ [][FallsBackToLocalStats]_vars

\* C16 witness: the statistics request failed after the article page had
\* arrived: stats holds the zeroed aggregate, the page shows the aggregate
\* of its two articles and has no error.
C16_Witness ==
    /\ stats = Some(ZeroedStats) /\ ~statsLoading /\ fetchingStats = 0
    /\ articleList.loaded /\ Len(articleList.items) = 2
    /\ displayStats = localStats /\ displayStats[1].timeRange = "current page"
    /\ error = Null

\* C17: on localhost the effect that runs on creation sets the monitor
\* healthy, issues no probe and schedules neither the fallback timer nor an
\* interval, and a local monitor never has a fallback timer.
C17_LocalModeHealthyAtOnce ==
    /\ [][(MountEffect /\ ~isProduction) =>
            /\ HealthyFlags(status')
            /\ inflight' = 0 /\ intervals' = {} /\ intervalRef' = 0
            /\ timer' = "none"]_vars
    /\ [](~isProduction => timer = "none")

\* C17 witness: a local monitor after its effect: healthy, nothing in flight
\* and nothing scheduled.
C17_Witness ==
    /\ phase = "mounted" /\ ~isProduction
    /\ status = LocalReadyStatus
    /\ inflight = 0 /\ intervals = {} /\ timer = "none"

\* C18: the monitor shows the starting-up indication only after more than 2
\* failed probes since creation or the last retry and before the retry
\* budget is used up; with 0, 1 or 2 failures it does not show it.
C18_SpinningUpOnlyAfterTwoFailures ==
    status.isSpinningUp => (status.retryCount > 2 /\ status.retryCount < maxRetries)

\* the messages the monitor shows while it is not healthy
NotHealthyMessages ==
    {MsgChecking, MsgUnavailable, MsgStartingFixed}
        \cup {MsgStartingUp(minutes) : minutes \in 0..Ceil(maxRetries * probeIntervalSeconds, 60)}

\* C19: a probe that ends in a non-success status, a network error or a
\* timeout is one failed probe, whichever of the three it is: checkHealth
\* yields false, the counter goes up by one, the monitor is not healthy, and
\* the only failure it reports is the unavailable message once the budget is
\* used up.
C19_FailuresHandledAlike ==
    /\ \A outcome \in ProbeOutcomes \ {"ok"} : checkHealth(outcome) = FALSE
    /\ [][\A outcome \in ProbeOutcomes \ {"ok"} :
              ProbeCompletes(outcome) =>
                  /\ status'.retryCount = status.retryCount + 1
                  /\ ~status'.isHealthy
                  /\ status'.message \in NotHealthyMessages
                  /\ status'.message = MsgUnavailable <=> status'.retryCount >= maxRetries
                  /\ status'.isChecking <=> status'.retryCount < maxRetries
                  /\ inflight' = inflight - 1]_vars

\* C19 witness: the first probe after a retry has failed: one failure is
\* counted and the monitor goes on checking.
C19_Witness ==
    /\ phase = "mounted"
    /\ status.retryCount = 1 /\ ~status.isHealthy /\ status.isChecking
    /\ status.message = MsgChecking

\* the label the thresholds give to a distribution with a non-zero sum, in
\* exact arithmetic: shares are compared as fractions of the sum
ThresholdLabel(leftLeaning, centrist, rightLeaning) ==
    LET total == leftLeaning + centrist + rightLeaning
    IN  IF centrist * 100 > 60 * total THEN "Mostly Centrist"
        ELSE IF (leftLeaning - rightLeaning) * 100 > 20 * total THEN "Left-Leaning"
        ELSE IF (rightLeaning - leftLeaning) * 100 > 20 * total THEN "Right-Leaning"
        ELSE "Mixed Perspectives"

\* C20: for the aggregate displayed with the article page, if its bias counts do not sum to zero,
\* the overall bias label is 'Mostly Centrist' when the centrist share
\* exceeds 60%, else 'Left-Leaning' when the left share exceeds the right
\* share by more than 20 points, else 'Right-Leaning' in the symmetric case,
\* else 'Mixed Perspectives'.
C20_BiasLabelThresholds ==
    (articleList.loaded /\ displayStats # Null) =>
        LET distribution == displayStats[1].biasDistribution
        IN  distribution.leftLeaning + distribution.centrist + distribution.rightLeaning > 0 =>
                getBiasLabel(displayStats[1]) =
                    ThresholdLabel(distribution.leftLeaning, distribution.centrist,
                                   distribution.rightLeaning)

\* C22: a monitor that reports healthy goes on reporting healthy in every
\* step that is not a manual retry, the completion of a probe that was still
\* in flight included.
C22_HealthyIsStable ==
    [][(status.isHealthy /\ ~RetryHealthCheck) => status'.isHealthy]_vars

\* C23: at most one interval is active at any time, and a monitor that
\* reports healthy or unavailable has no interval running.
C23_AtMostOneInterval ==
    /\ Cardinality(intervals) <= 1
    /\ (HealthyFlags(status) \/ UnavailableFlags(status)) => intervals = {}

\* a monitor that has issued no probe: healthy or checking, no probe in
\* flight, no interval
Quiescent ==
    /\ status.isHealthy \/ status.isChecking
    /\ inflight = 0 /\ intervals = {} /\ intervalRef = 0

\* C27: the monitor is created healthy-or-checking with no probe issued; every
\* step other than a retry keeps it so; and in such a state the banner does not
\* render the Retry button. Hence, with the button as the only way to retry,
\* the button is never rendered and the monitor never issues a probe.
C27_RetryNeverOffered ==
    /\ phase = "created" => Quiescent
    /\ [][(Quiescent /\ ~RetryHealthCheck) => Quiescent']_vars
    /\ [](Quiescent => ~RetryButtonRendered)

\* C27 witness: a production monitor has run its effect and waits for the
\* fallback timer: checking, no probe issued, no Retry button.
C27_Witness ==
    /\ phase = "mounted" /\ isProduction /\ timer = "pending"
    /\ status = ProductionStartStatus
    /\ Quiescent /\ ~RetryButtonRendered

\* C25: the sources list never holds two entries with the same id, and no
\* step removes from it a source that the backend still holds.
C25_NoDuplicateNoLoss ==
    /\ [](\A i, j \in 1..Len(sources) : i # j => sources[i].id # sources[j].id)
    /\ [][\A i \in 1..Len(sources) :
              (\E k \in 1..Len(backend') : backend'[k].id = sources[i].id) =>
                  \E j \in 1..Len(sources') : sources'[j].id = sources[i].id]_vars

\* the bucket of the aggregate that goes with an option of the bias filter
BucketOfOption(option) ==
    CASE option = "left-leaning" -> "leftLeaning"
      [] option = "centrist" -> "centrist"
      [] option = "right-leaning" -> "rightLeaning"

\* C30: when the bias selection is exactly one option and no other dimension
\* is restricted, every article of the page that the aggregate counts in the
\* bucket of that option is in the filtered result, so the filtered result
\* has at least as many articles as the bucket counts.
C30_BiasFilterMatchesBuckets ==
    articleList.loaded =>
        \A option \in BiasOptions :
            filters = [defaultFilters EXCEPT !.bias = <<option>>] =>
                /\ \A i \in 1..Len(articleList.items) :
                       BiasBucket(articleList.items[i]) = BucketOfOption(option) =>
                           \E j \in 1..Len(filteredArticles) :
                               filteredArticles[j] = articleList.items[i]
                /\ localStats[1].biasDistribution[BucketOfOption(option)]
                       <= Len(filteredArticles)

\* C26: whenever the banner's monitor reports healthy while the Search page
\* is shown (its effect has run), the page's monitor reports healthy too.
C26_BannerAndPageAgree ==
    (phase = "mounted" /\ status.isHealthy /\ pagePhase = "mounted") => pageStatus.isHealthy

\* No call of fetchTopic awaits getTopic or getTopicArticles.
NoFetchInFlight ==
    AwaitingStage(threads, "getTopic") = 0 /\ AwaitingStage(threads, "getTopicArticles") = 0

\* C24: on the topic page, whenever no article fetch is in flight, the
\* displayed article list is the one of the current topic id and its page
\* number equals currentPage, whatever the interleaving of page changes, topic
\* changes, refreshes and the re-fetches that follow an analysis.
C24_ListMatchesRoute ==
    (PageRendered /\ NoFetchInFlight)
        => (articleList.topicId = routeTopicId /\ articleList.page = currentPage)

\* C28: on the topic page, currentPage lies between 1 and the page count of
\* the loaded article list, also after the topic id has changed or a
\* re-fetch has returned a list with fewer pages.
C28_CurrentPageInRange ==
    (navPhase = "mounted" /\ articleList.loaded)
        => (1 <= currentPage /\ currentPage <= articleList.pages)

\* C29: every source name selected in the filter criteria is one of the
\* available sources derived from the loaded article page.
C29_SelectedSourcesAvailable ==
    navPhase = "mounted"
        => \A i \in 1..Len(filters.sources) : Includes(availableSources, filters.sources[i])

\* Some call of the handler `kind' of the topic page is at stage `stage'.
AnalysisAt(kind, stage) == \E th \in BagToSet(threads) : th.kind = kind /\ th.stage = stage

\* The stage that follows `stage' in an analysis handler of the topic page
\* once its POST has been answered.
StageAfter(kind, stage) ==
    CASE stage = "wait" -> {"getTopic"}
      [] stage = "getTopic" -> IF kind = "analyzeTopic" THEN {"getTopicArticles", "getStats"}
                                                         ELSE {"getTopicArticles", "delay"}
      [] stage = "getTopicArticles" -> IF kind = "analyzeTopic" THEN {"getStats"} ELSE {"delay"}
      [] stage = "delay" -> {"getStats"}
      [] OTHER -> {}

\* C21: a successful analysis request is followed by a re-fetch of what it
\* analysed. On the topic page a handleAnalyzeTopic whose POST was answered
\* with a success status goes on, whatever becomes of the response's body,
\* to its wait, then to a call of fetchTopic and then to a request for the
\* statistics, and a successful POST of handleAnalyzeArticle leads to a call
\* of fetchTopic at once and then to a request for the statistics; within
\* that fetchTopic the article page is requested once getTopic has answered,
\* and a handler that has come to its re-fetch is not given up before its
\* request for the statistics; isAnalyzing is reset only by a
\* handleAnalyzeTopic that ends. On the article page a successful POST is
\* followed by getArticle. The flags isAnalyzing and analyzing, once set,
\* return to false whether the request succeeds or fails.
C21_AnalysisIsFollowedByRefetch ==
    /\ [][\A th \in BagToSet(threads) :
            (th.stage = "post" /\ AnalysisPostSettles(th, "ok"))
                => IF th.kind = "analyzeTopic"
                   THEN /\ BagIn([th EXCEPT !.stage = "json", !.responseOk = TRUE], threads')
                        /\ isAnalyzing'
                   ELSE BagIn([th EXCEPT !.stage = "getTopic"], threads') /\ loading']_vars
    /\ [][\A th \in BagToSet(threads) :
            (/\ th.kind = "analyzeTopic" /\ th.stage = "json" /\ th.responseOk
             /\ CopiesIn(th, threads') < CopiesIn(th, threads))
                => /\ BagIn([th EXCEPT !.stage = "wait", !.responseOk = FALSE], threads')
                   /\ isAnalyzing']_vars
    /\ [][\A th \in BagToSet(threads) :
            (th.kind # "fetchTopic" /\ GetTopicSettles(th, TRUE))
                => BagIn([th EXCEPT !.stage = "getTopicArticles"], threads')]_vars
    /\ [][\A th \in BagToSet(threads) :
            (th.kind # "fetchTopic" /\ th.stage \notin {"post", "json", "getStats"})
                => \/ CopiesIn(th, threads') >= CopiesIn(th, threads)
                   \/ \E stage \in StageAfter(th.kind, th.stage) :
                         BagIn([th EXCEPT !.stage = stage], threads')]_vars
    /\ [][(articleStage = "post" /\ ArticlePostSettles("ok"))
            => (articleStage' = "getArticle" /\ analyzing')]_vars
    /\ [][(articleStage = "getArticle" /\ ArticleRefetchSettles(TRUE))
            => (articleShown' = Some(ServerArticle) /\ ~analyzing')]_vars
    /\ [][(isAnalyzing /\ ~isAnalyzing')
            => \E th \in BagToSet(threads) :
                  /\ th.kind = "analyzeTopic" /\ th.stage \in {"post", "json", "getStats"}
                  /\ CopiesIn(th, threads') < CopiesIn(th, threads)]_vars
    /\ AnalysisAt("analyzeArticle", "getTopic") ~> AnalysisAt("analyzeArticle", "getStats")
    /\ isAnalyzing ~> ~isAnalyzing
    /\ analyzing ~> ~analyzing
====
